---- MODULE Spec2Model ----
(***************************************************************************)
(* Model of the 1-to-1 call engine CallApi (src/src/callApi/core/          *)
(* callApi.ts): the engine state machine, its public commands, its inbound *)
(* signaling handlers, the media-plane handlers, the timeout timer and the *)
(* suspension points of its async functions.                               *)
(*                                                                         *)
(* One engine per user id.  A handler runs atomically up to its first      *)
(* suspension point (an awaited sendMessage / join / publish / leave);     *)
(* what follows the await is a separate action.  A handler is a function   *)
(* on the engine record; what it emits (state changes, events, errors,     *)
(* sends) is collected, in order, in the field out of its result.          *)
(*                                                                         *)
(* Scope: video calls (an inbound AudioCall is a no-op in the source, and  *)
(* the application never passes a callType); the application of            *)
(* src/unnamed/part_000 (autoAccept false, callTimeoutMillisecond set);    *)
(* createTracks and client.join resolve in one step; subscribe is atomic   *)
(* within user-published; sends, join, publish and leave do not fail.      *)
(* The message codec (callMessage.ts) is not part of the sources at hand:  *)
(* Encode and Decode follow its description.                               *)
(***************************************************************************)
EXTENDS Integers, Sequences, FiniteSets, TLC

\* ------------------------------------------------------------------ bounds
MaxCalls == 1        \* Spec: call() commands accepted over the run (uuidv4 draws)
MaxCmds == 1         \* Spec: other commands over the run
MaxValidCalls == 1   \* SpecValid: the same two bounds
MaxValidCmds == 2
MaxHappyCalls == 1   \* SpecHappy: the same two bounds
MaxHappyCmds == 1
MaxTimeoutCalls == 2 \* SpecTimeout: the same two bounds
MaxTimeoutCmds == 1
MaxBusyCalls == 2    \* SpecBusy: the same two bounds
MaxBusyCmds == 1
MaxRejectCalls == 1  \* SpecReject
MaxRejectCmds == 1
MaxSendFailCalls == 1 \* SpecSendFail
MaxSendFailCmds == 2
MaxGlareCalls == 2   \* SpecGlare
MaxGlareCmds == 1
MaxNoWaitCalls == 1  \* SpecNoWait
MaxNoWaitCmds == 1
MaxMediaCalls == 1   \* SpecMedia
MaxMediaCmds == 2
MaxStaleCalls == 2
MaxStaleCmds == 3
MaxLeaveFailCalls == 2
MaxLeaveFailCmds == 2
MaxLegacyCalls == 1
MaxLegacyCmds == 2

\* ------------------------------------------------------------- user ids
Engines == {1, 2, 3}
NoUser == 0        \* remoteUserId: number = 0   (callApi.ts:45)
NoCallId == 0      \* the empty callId ""        (callApi.ts:736)
Reasons == {"no"}  \* reject reasons the application passes to reject()

VARIABLES
  state,            \* CallApi.state
  remoteUserId,     \* CallApi.remoteUserId
  callId,           \* CallMessage's callId, read by getCallId()
  prepareConfig,    \* CallApi.prepareConfig
  localTracks,      \* CallApi.localTracks: "none" | "open" | "closed"
  remoteTracks,     \* CallApi.remoteTracks: [video, audio, audioPlaying]
  rtcJoined,        \* CallApi._rtcJoined
  firstFrameDecoded,\* CallApi._receiveRemoteFirstFrameDecoded
  cancelCallTimer,  \* CallApi._cancelCallTimer, the handle: "none" | "local" | "remote"
  timeouts,         \* setTimeout callbacks of _autoCancelCall pending in the runtime,
                    \* oldest first: [isLocal, callId at arming]
  views,            \* [localView, remoteView]: LOCAL/REMOTE_VIEW_ELEMENT attached
  pending,          \* suspended async functions of the engine
  rtc,              \* the media client of the engine, as the media plane sees it
  chan,             \* signaling messages in flight, chan[from][to], FIFO
  uuid,             \* number of uuidv4() draws so far
  ncmd,             \* number of commands other than call() issued so far
  attachCount,      \* history: latches of `connected` since the call entered calling
  observed,         \* the application's listener: the last callStateChanged it saw
  legacy            \* an engine of the legacy CallApi variant, with its in-flight
                    \* async functions and the emissions of its last step

engineVars == <<state, remoteUserId, callId, prepareConfig, localTracks,
                remoteTracks, rtcJoined, firstFrameDecoded, cancelCallTimer,
                timeouts, views, pending, rtc, chan, attachCount, observed>>

vars == <<engineVars, uuid, ncmd, legacy>>

\* ------------------------------------------------------------ data model
IsBusyState(s) == s \in {"calling", "connected", "connecting"}

EmptyConfig ==
  [roomId |-> 0, rtcToken |-> FALSE, localView |-> FALSE, remoteView |-> FALSE,
   callTimeoutMillisecond |-> 0, firstFrameWaittingDisabled |-> FALSE]

CALL_TIMEOUT_MILLISECOND == 1000

\* The partial configs the application passes to prepareForCall: the full
\* config of the demo application, and the toggle of firstFrameWaittingDisabled.
FullConfig(e, ffwd) ==
  [roomId |-> e, rtcToken |-> TRUE, localView |-> TRUE, remoteView |-> TRUE,
   callTimeoutMillisecond |-> CALL_TIMEOUT_MILLISECOND,
   firstFrameWaittingDisabled |-> ffwd]

ToggleConfig(ffwd) == [firstFrameWaittingDisabled |-> ffwd]

PartialConfigs(e) ==
  {FullConfig(e, b) : b \in BOOLEAN} \cup {ToggleConfig(b) : b \in BOOLEAN}

\* A prepareForCall that assigns the given config instead of merging it.
MergeConfigAssign(old, partial) ==
  [k \in DOMAIN old |-> IF k \in DOMAIN partial THEN partial[k] ELSE EmptyConfig[k]]

\* { ...this.prepareConfig, ...prepareConfig }
MergeConfig(old, partial) ==
  [k \in DOMAIN old |-> IF k \in DOMAIN partial THEN partial[k] ELSE old[k]]

NoTracks == [video |-> FALSE, audio |-> FALSE, audioPlaying |-> FALSE]
NoViews == [localView |-> FALSE, remoteView |-> FALSE]
NoPending ==
  [call |-> 0,          \* call() instances awaiting the invite send
   join |-> 0,          \* _rtcJoinAndPublish awaiting createTracks + join
   tracks |-> 0,        \* _rtcJoinAndPublish awaiting createTracks only
   orphan |-> 0,        \* createTracks of a _rtcJoinAndPublish whose join threw
   publish |-> 0,       \* _rtcJoinAndPublish awaiting publish
   joinRoom |-> 0,      \* the room of the last client.join call
   leave |-> <<>>]      \* destory() instances awaiting client.leave, with what follows
NoRtc ==
  [room |-> 0,          \* the channel the client is in
   published |-> FALSE, \* local tracks are published
   left |-> {},         \* user-left events not yet delivered to this client
   firstFrame |-> FALSE]\* a subscribed remote video track has yet to decode a frame

\* eventInfo of callStateChanged, absent fields at their defaults.
\* The legacy engine as constructed (part_002): idle, nothing held, no async
\* function in flight.
NoLegacy ==
  [state |-> "idle", remoteUserId |-> NoUser, callId |-> NoCallId,
   callEvent |-> "none", prepareConfig |-> EmptyConfig, localTracks |-> "none",
   rtcJoined |-> FALSE, rtcPublished |-> FALSE, firstFrameDecoded |-> FALSE,
   cancelCallTimer |-> "none", ops |-> <<>>, out |-> <<>>]

NoInfo ==
  [remoteUserId |-> 0, fromUserId |-> 0, rejectReason |-> "",
   cancelCallByInternal |-> ""]

\* What follows `await this.destory()` in the caller of destory.
ContNone == [k |-> "none"]
ContReject(reason, rejectReason) ==
  [k |-> "reject", stateReason |-> reason, rejectReason |-> rejectReason]
ContUserLeft == [k |-> "userLeft"]

\* The envelope (ICallMessage).
Message(action, from, to) ==
  [message_action |-> action, callId |-> NoCallId, fromUserId |-> from,
   remoteUserId |-> to, fromRoomId |-> 0, rejectReason |-> "",
   rejectByInternal |-> "External", cancelCallByInternal |-> "External"]

\* CallMessage.encode stamps the codec's callId on the envelope and lays the
\* fields out in a fixed order; decode reads them back.
Encode(cid, m) ==
  <<cid, m.fromUserId, m.remoteUserId, m.fromRoomId, m.message_action,
    m.rejectReason, m.rejectByInternal, m.cancelCallByInternal>>

Decode(p) ==
  [callId |-> p[1], fromUserId |-> p[2], remoteUserId |-> p[3],
   fromRoomId |-> p[4], message_action |-> p[5], rejectReason |-> p[6],
   rejectByInternal |-> p[7], cancelCallByInternal |-> p[8]]

\* ------------------------------------------------- the engine as a record
\* Ctx(e) gathers the fields of engine e; the handlers below are functions on
\* that record, composed in the order of the statements of the source.
Ctx(e) ==
  [userId |-> e,
   state |-> state[e], remoteUserId |-> remoteUserId[e], callId |-> callId[e],
   prepareConfig |-> prepareConfig[e], localTracks |-> localTracks[e],
   remoteTracks |-> remoteTracks[e], rtcJoined |-> rtcJoined[e],
   firstFrameDecoded |-> firstFrameDecoded[e],
   cancelCallTimer |-> cancelCallTimer[e], timeouts |-> timeouts[e],
   views |-> views[e],
   pending |-> pending[e], attachCount |-> attachCount[e],
   sent |-> <<>>, out |-> <<>>]

Emit(c, x) == [c EXCEPT !.out = Append(@, x)]

\* _callEventChange
CallEventChange(c, ev) == Emit(c, [kind |-> "event", event |-> ev])

\* _callError
CallError(c, ev, type) == Emit(c, [kind |-> "error", event |-> ev, type |-> type])

\* A _callStateChange without the same-state return.
CallStateChangeAlways(c, st, reason, info) ==
  Emit([c EXCEPT !.state = st,
                 !.attachCount = IF st = "calling" THEN 0 ELSE @],
       [kind |-> "state", from |-> c.state, to |-> st, reason |-> reason,
        info |-> info, callId |-> c.callId])

\* _callStateChange.  The emitted record carries what an observer reads inside
\* the callStateChanged callback: the state left, and getCallId().
CallStateChange(c, st, reason, info) ==
  IF c.state = st THEN c
  ELSE Emit([c EXCEPT !.state = st,
                      !.attachCount = IF st = "calling" THEN 0 ELSE @],
            [kind |-> "state", from |-> c.state, to |-> st, reason |-> reason,
             info |-> info, callId |-> c.callId])

\* `throw` out of a public command: the command fails.
Throw(c) == Emit(c, [kind |-> "throw"])

\* A _publishMessage that swallows the failure of the send.
PublishMessageSilent(c, uid, m, ok) ==
  LET p == Encode(c.callId, m)
      c1 == Emit(c, [kind |-> "send", uid |-> uid, msg |-> Decode(p)])
  IN IF ok THEN [c1 EXCEPT !.sent = Append(@, <<uid, p>>)] ELSE c1

\* _publishMessage: encode, then sendMessage.  ok is the outcome of the send.
PublishMessage(c, uid, m, ok) ==
  LET p == Encode(c.callId, m)
      c1 == Emit(c, [kind |-> "send", uid |-> uid, msg |-> Decode(p)])
  IN IF ok THEN [c1 EXCEPT !.sent = Append(@, <<uid, p>>)]
     ELSE CallError(c1, "sendMessageFail", "message")

\* _resetView
ResetView(c) ==
  [c EXCEPT !.views = [localView |-> IF c.prepareConfig.localView THEN FALSE ELSE @.localView,
                       remoteView |-> IF c.prepareConfig.remoteView THEN FALSE ELSE @.remoteView]]

\* if (this._cancelCallTimer) { clearTimeout(...); this._cancelCallTimer = null }
\* The handle names the timeout armed last; it is dropped when that one fires.
ClearCancelCallTimer(c) ==
  IF c.cancelCallTimer = "none" THEN c
  ELSE [c EXCEPT !.timeouts = SubSeq(@, 1, Len(@) - 1), !.cancelCallTimer = "none"]

\* A _resetData that leaves _rtcJoined set.
ResetDataKeepJoined(c) ==
  ClearCancelCallTimer(
    ResetView([c EXCEPT !.callId = NoCallId, !.remoteUserId = NoUser,
                        !.localTracks = "none", !.remoteTracks = NoTracks,
                        !.firstFrameDecoded = FALSE, !.attachCount = 0]))

\* _resetData
ResetData(c) ==
  ClearCancelCallTimer(
    ResetView([c EXCEPT !.callId = NoCallId, !.remoteUserId = NoUser,
                        !.localTracks = "none", !.remoteTracks = NoTracks,
                        !.rtcJoined = FALSE, !.firstFrameDecoded = FALSE,
                        !.attachCount = 0]))

\* What the caller of destory does once destory has returned.
RunCont(c, k) ==
  CASE k.k = "reject" ->
         CallEventChange(
           CallStateChange(c, "prepared", k.stateReason,
                           [NoInfo EXCEPT !.rejectReason = k.rejectReason]),
           "remoteRejected")
    [] k.k = "userLeft" ->
         CallStateChange(c, "prepared", "remoteHangup", NoInfo)
    [] OTHER -> c

\* destory, up to `await this.rtcClient.leave()`; when the engine has not
\* joined there is no await and the caller continues in the same step.
Destory(c, k) ==
  LET c1 == [c EXCEPT !.remoteTracks.audioPlaying = FALSE,
                      !.localTracks = IF @ = "open" THEN "closed" ELSE @]
  IN IF c1.rtcJoined
     THEN [c1 EXCEPT !.pending.leave = Append(@, k)]
     ELSE RunCont(ResetData(c1), k)

\* A sender check that admits every user.
IsCallingUserAny(c, userId) == TRUE

\* A sender check that admits a user only while no peer is committed.
IsCallingUserFirstOnly(c, userId) == c.remoteUserId = NoUser

\* _isCallingUser
IsCallingUser(c, userId) ==
  IF c.remoteUserId = NoUser THEN TRUE ELSE c.remoteUserId = userId

\* _playRemoteAudio
PlayRemoteAudio(c) ==
  IF c.remoteTracks.audio THEN [c EXCEPT !.remoteTracks.audioPlaying = TRUE] ELSE c

\* A view-attach check that does not wait for the first frame.
CheckAppendViewNoWait(c) ==
  IF c.state # "connecting" THEN c
  ELSE LET c1 == CallStateChange(c, "connected", "recvRemoteFirstFrame", NoInfo)
           c2 == [c1 EXCEPT !.attachCount = IF @ < 2 THEN @ + 1 ELSE @]
       IN PlayRemoteAudio([c2 EXCEPT !.views = [localView |-> TRUE,
                                                remoteView |-> TRUE]])

\* _checkAppendView.  A missing view makes it throw after the state change.
CheckAppendView(c) ==
  IF c.state # "connecting" THEN c
  ELSE IF c.prepareConfig.firstFrameWaittingDisabled \/ c.firstFrameDecoded
  THEN LET c1 == CallStateChange(c, "connected", "recvRemoteFirstFrame", NoInfo)
           c2 == [c1 EXCEPT !.attachCount = IF @ < 2 THEN @ + 1 ELSE @]
       IN IF ~c2.prepareConfig.localView THEN c2
          ELSE IF ~c2.prepareConfig.remoteView
          THEN [c2 EXCEPT !.views.localView = TRUE]
          ELSE PlayRemoteAudio([c2 EXCEPT !.views = [localView |-> TRUE,
                                                     remoteView |-> TRUE]])
  ELSE c

\* _rtcJoinAndPublish, up to its first await: createTracks is started, and
\* _rtcJoin returns at once when already joined, throws on a missing roomId or
\* rtcToken, and otherwise calls client.join.
RtcJoinAndPublish(c) ==
  IF c.rtcJoined THEN [c EXCEPT !.pending.tracks = @ + 1]
  ELSE IF c.prepareConfig.roomId = 0 \/ ~c.prepareConfig.rtcToken
  THEN CallError([c EXCEPT !.pending.orphan = @ + 1], "rtcOccurError", "rtc")
  ELSE CallEventChange([c EXCEPT !.pending.join = @ + 1,
                                 !.pending.joinRoom = c.prepareConfig.roomId],
                       "joinRTCStart")

\* An _autoCancelCall that arms a timeout without clearing the one the handle
\* names.
AutoCancelCallNoClear(c, isLocal) ==
  IF c.remoteUserId = NoUser THEN c
  ELSE IF c.prepareConfig.callTimeoutMillisecond # 0
  THEN [c EXCEPT !.timeouts = Append(@, [isLocal |-> isLocal, callId |-> c.callId]),
                 !.cancelCallTimer = IF isLocal THEN "local" ELSE "remote"]
  ELSE c

\* _autoCancelCall: arms the timer, cancelling the pending one.
AutoCancelCall(c, isLocal) ==
  IF c.remoteUserId = NoUser THEN c
  ELSE IF c.prepareConfig.callTimeoutMillisecond # 0
  THEN [ClearCancelCallTimer(c)
          EXCEPT !.timeouts = Append(@, [isLocal |-> isLocal, callId |-> c.callId]),
                 !.cancelCallTimer = IF isLocal THEN "local" ELSE "remote"]
  ELSE c

\* ------------------------------------------------------------ committing
RECURSIVE SendAll(_, _, _)
\* sendMessage(uid, payload): the transport carries the payload to user uid.
SendAll(ch, e, sent) ==
  IF sent = <<>> THEN ch
  ELSE LET uid == Head(sent)[1]
           ch1 == IF uid \in Engines /\ uid # e
                  THEN [ch EXCEPT ![e][uid] = Append(@, Head(sent)[2])]
                  ELSE ch
       IN SendAll(ch1, e, Tail(sent))

\* The callStateChanged emissions among what a handler emitted.
StateChanges(o) == SelectSeq(o, LAMBDA x : x.kind = "state")

\* Writes the engine record back.  The application's callStateChanged listener
\* keeps the last emission.  The messages the step sent go out with Send.
Commit(e, c, op, arg) ==
  /\ state' = [state EXCEPT ![e] = c.state]
  /\ remoteUserId' = [remoteUserId EXCEPT ![e] = c.remoteUserId]
  /\ callId' = [callId EXCEPT ![e] = c.callId]
  /\ prepareConfig' = [prepareConfig EXCEPT ![e] = c.prepareConfig]
  /\ localTracks' = [localTracks EXCEPT ![e] = c.localTracks]
  /\ remoteTracks' = [remoteTracks EXCEPT ![e] = c.remoteTracks]
  /\ rtcJoined' = [rtcJoined EXCEPT ![e] = c.rtcJoined]
  /\ firstFrameDecoded' = [firstFrameDecoded EXCEPT ![e] = c.firstFrameDecoded]
  /\ cancelCallTimer' = [cancelCallTimer EXCEPT ![e] = c.cancelCallTimer]
  /\ timeouts' = [timeouts EXCEPT ![e] = c.timeouts]
  /\ views' = [views EXCEPT ![e] = c.views]
  /\ pending' = [pending EXCEPT ![e] = c.pending]
  /\ attachCount' = [attachCount EXCEPT ![e] = c.attachCount]
  /\ observed' = IF StateChanges(c.out) = <<>> THEN observed
                 ELSE [observed EXCEPT ![e] =
                         StateChanges(c.out)[Len(StateChanges(c.out))]]
  /\ legacy' = legacy

Send(e, c) == chan' = SendAll(chan, e, c.sent)

\* ------------------------------------------------------- public commands
\* prepareForCall
PrepareForCallBody(c, partial) ==
  IF IsBusyState(c.state)
  THEN Throw(CallEventChange(c, "stateMismatch"))
  ELSE CallStateChange([c EXCEPT !.prepareConfig = MergeConfig(@, partial)],
                       "prepared", "none", NoInfo)

PrepareForCall(e, partial) ==
  /\ Commit(e, PrepareForCallBody(Ctx(e), partial), "prepareForCall", 0)
  /\ ncmd' = ncmd + 1
  /\ UNCHANGED <<rtc, chan, uuid>>

\* A call() without the state check.
CallBodyNoStateCheck(c, remote, id, ok) ==
  LET c1 == [c EXCEPT !.remoteUserId = remote]
      c2 == CallStateChange(c1, "calling", "localVideoCall",
              [NoInfo EXCEPT !.remoteUserId = remote, !.fromUserId = c.userId])
      c3 == CallEventChange(c2, "onCalling")
      c4 == [c3 EXCEPT !.callId = id]
      c5 == AutoCancelCall(c4, TRUE)
      c6 == RtcJoinAndPublish(c5)
      c7 == PublishMessage(c6, remote,
              [Message("VideoCall", c.userId, remote)
                 EXCEPT !.fromRoomId = c.prepareConfig.roomId], ok)
  IN IF ok THEN [c7 EXCEPT !.pending.call = @ + 1] ELSE Throw(c7)

\* call, up to `await this._publishMessage(...)`.  id is the uuidv4() drawn.
\* A call that assigns the callId before it emits the state change.
CallBodyIdFirst(c, remote, id, ok) ==
  IF c.state # "prepared"
  THEN Throw(CallEventChange(c, "stateMismatch"))
  ELSE LET c1 == [c EXCEPT !.remoteUserId = remote, !.callId = id]
           c2 == CallStateChange(c1, "calling", "localVideoCall",
                   [NoInfo EXCEPT !.remoteUserId = remote, !.fromUserId = c.userId])
           c3 == CallEventChange(c2, "onCalling")
           c5 == AutoCancelCall(c3, TRUE)
           c6 == RtcJoinAndPublish(c5)
           c7 == PublishMessage(c6, remote,
                   [Message("VideoCall", c.userId, remote)
                      EXCEPT !.fromRoomId = c.prepareConfig.roomId], ok)
       IN IF ok THEN [c7 EXCEPT !.pending.call = @ + 1] ELSE Throw(c7)

\* A call() that undoes the call when its invite cannot be sent.
CallBodyRollback(c, remote, id, ok) ==
  IF c.state # "prepared"
  THEN Throw(CallEventChange(c, "stateMismatch"))
  ELSE LET c1 == [c EXCEPT !.remoteUserId = remote]
           c2 == CallStateChange(c1, "calling", "localVideoCall",
                   [NoInfo EXCEPT !.remoteUserId = remote, !.fromUserId = c.userId])
           c3 == CallEventChange(c2, "onCalling")
           c4 == [c3 EXCEPT !.callId = id]
           c5 == AutoCancelCall(c4, TRUE)
           c6 == RtcJoinAndPublish(c5)
           c7 == PublishMessage(c6, remote,
                   [Message("VideoCall", c.userId, remote)
                      EXCEPT !.fromRoomId = c.prepareConfig.roomId], ok)
       IN IF ok THEN [c7 EXCEPT !.pending.call = @ + 1]
          ELSE Throw(Destory(CallStateChange(c7, "prepared", "none", NoInfo),
                             ContNone))

CallBody(c, remote, id, ok) ==
  IF c.state # "prepared"
  THEN Throw(CallEventChange(c, "stateMismatch"))
  ELSE LET c1 == [c EXCEPT !.remoteUserId = remote]
           c2 == CallStateChange(c1, "calling", "localVideoCall",
                   [NoInfo EXCEPT !.remoteUserId = remote, !.fromUserId = c.userId])
           c3 == CallEventChange(c2, "onCalling")
           c4 == [c3 EXCEPT !.callId = id]
           c5 == AutoCancelCall(c4, TRUE)
           c6 == RtcJoinAndPublish(c5)
           c7 == PublishMessage(c6, remote,
                   [Message("VideoCall", c.userId, remote)
                      EXCEPT !.fromRoomId = c.prepareConfig.roomId], ok)
       IN IF ok THEN [c7 EXCEPT !.pending.call = @ + 1] ELSE Throw(c7)

Call(e, remote, ok) ==
  /\ Commit(e, CallBody(Ctx(e), remote, uuid + 1, ok), "call", remote)
  /\ Send(e, CallBody(Ctx(e), remote, uuid + 1, ok))
  /\ uuid' = IF state[e] = "prepared" THEN uuid + 1 ELSE uuid
  /\ UNCHANGED <<rtc, ncmd>>

\* call, after the invite send has resolved
CallSendDone(e) ==
  /\ pending[e].call > 0
  /\ Commit(e, CallEventChange([Ctx(e) EXCEPT !.pending.call = @ - 1],
                               "remoteUserRecvCall"), "callSendDone", 0)
  /\ UNCHANGED <<rtc, chan, uuid, ncmd>>

ThrowUnless(ok, c) == IF ok THEN c ELSE Throw(c)

\* cancelCall
CancelCallBody(c, ok) ==
  LET c1 == CallStateChange(c, "prepared", "localCancel", NoInfo)
      c2 == CallEventChange(c1, "localCancelled")
      c3 == PublishMessage(c2, c2.remoteUserId,
              Message("Cancel", c.userId, c2.remoteUserId), ok)
  IN ThrowUnless(ok, Destory(c3, ContNone))

CancelCall(e, ok) ==
  /\ Commit(e, CancelCallBody(Ctx(e), ok), "cancelCall", 0)
  /\ Send(e, CancelCallBody(Ctx(e), ok))
  /\ ncmd' = ncmd + 1
  /\ UNCHANGED <<rtc, uuid>>

\* reject
RejectBody(c, remote, reason, ok) ==
  LET c1 == CallStateChange(c, "prepared", "localRejected", NoInfo)
      c2 == CallEventChange(c1, "localRejected")
      c3 == PublishMessage(c2, remote,
              [Message("Reject", c.userId, remote) EXCEPT !.rejectReason = reason], ok)
  IN ThrowUnless(ok, Destory(c3, ContNone))

Reject(e, remote, reason, ok) ==
  /\ Commit(e, RejectBody(Ctx(e), remote, reason, ok), "reject", remote)
  /\ Send(e, RejectBody(Ctx(e), remote, reason, ok))
  /\ ncmd' = ncmd + 1
  /\ UNCHANGED <<rtc, uuid>>

\* An accept() that sends Accept before it changes the state.
AcceptBodySendFirst(c, remote, ok) ==
  IF c.state # "calling"
  THEN Throw(CallEventChange(c, "stateMismatch"))
  ELSE LET c1 == CallEventChange(c, "localAccepted")
           c2 == PublishMessage(c1, remote, Message("Accept", c.userId, remote), ok)
           c3 == CallStateChange(c2, "connecting", "localAccepted", NoInfo)
       IN ThrowUnless(ok, CheckAppendView(c3))

\* accept
AcceptBody(c, remote, ok) ==
  IF c.state # "calling"
  THEN Throw(CallEventChange(c, "stateMismatch"))
  ELSE LET c1 == CallEventChange(c, "localAccepted")
           c2 == CallStateChange(c1, "connecting", "localAccepted", NoInfo)
           c3 == PublishMessage(c2, remote, Message("Accept", c.userId, remote), ok)
       IN ThrowUnless(ok, CheckAppendView(c3))

Accept(e, remote, ok) ==
  /\ Commit(e, AcceptBody(Ctx(e), remote, ok), "accept", remote)
  /\ Send(e, AcceptBody(Ctx(e), remote, ok))
  /\ ncmd' = ncmd + 1
  /\ UNCHANGED <<rtc, uuid>>

\* hangup
HangupBody(c, remote, ok) ==
  LET c1 == CallStateChange(c, "prepared", "localHangup", NoInfo)
      c2 == CallEventChange(c1, "localHangup")
      c3 == PublishMessage(c2, remote, Message("Hangup", c.userId, remote), ok)
  IN ThrowUnless(ok, Destory(c3, ContNone))

Hangup(e, remote, ok) ==
  /\ Commit(e, HangupBody(Ctx(e), remote, ok), "hangup", remote)
  /\ Send(e, HangupBody(Ctx(e), remote, ok))
  /\ ncmd' = ncmd + 1
  /\ UNCHANGED <<rtc, uuid>>

\* ------------------------------------------------ inbound signaling
\* _autoReject
\* An automatic reject that is not marked as internal.
AutoRejectExternal(c, remote, ok) ==
  PublishMessage(c, remote,
    [Message("Reject", c.userId, remote) EXCEPT !.rejectReason = "busy"], ok)

AutoReject(c, remote, ok) ==
  PublishMessage(c, remote,
    [Message("Reject", c.userId, remote) EXCEPT !.rejectReason = "busy",
                                                !.rejectByInternal = "Internal"], ok)

\* _receiveVideoCall, up to `await this._rtcJoinAndPublish()`
ReceiveVideoCall(c, data, ok) ==
  IF ~IsCallingUser(c, data.fromUserId)
  THEN AutoReject(c, data.fromUserId, ok)
  ELSE LET c1 == [c EXCEPT !.callId = data.callId,
                           !.remoteUserId = data.fromUserId,
                           !.prepareConfig.roomId = data.fromRoomId]
           c2 == AutoCancelCall(c1, FALSE)
           c3 == CallStateChange(c2, "calling", "remoteVideoCall",
                   [NoInfo EXCEPT !.remoteUserId = data.remoteUserId,
                                  !.fromUserId = data.fromUserId])
           c4 == CallEventChange(c3, "onCalling")
       IN RtcJoinAndPublish(c4)

\* _receiveCancelCall
ReceiveCancelCall(c, data) ==
  IF ~IsCallingUser(c, data.fromUserId) THEN c
  ELSE LET c1 == CallStateChange(c, "prepared", "remoteCancel",
                   [NoInfo EXCEPT !.cancelCallByInternal = data.cancelCallByInternal])
           c2 == CallEventChange(c1, "remoteCancelled")
       IN Destory(c2, ContNone)

\* _receiveAccept
ReceiveAccept(c, data) ==
  LET c1 == CallEventChange(c, "remoteAccepted")
      c2 == CallStateChange(c1, "connecting", "remoteAccepted", NoInfo)
  IN CheckAppendView(c2)

\* _receiveHangup
ReceiveHangup(c, data) ==
  IF ~IsCallingUser(c, data.fromUserId) THEN c
  ELSE LET c1 == CallStateChange(c, "prepared", "remoteHangup", NoInfo)
           c2 == CallEventChange(c1, "remoteHangup")
       IN Destory(c2, ContNone)

\* _receiveReject
ReceiveReject(c, data) ==
  IF ~IsCallingUser(c, data.fromUserId) THEN c
  ELSE LET stateReason == IF data.rejectByInternal = "Internal"
                          THEN "remoteCallBusy" ELSE "remoteRejected"
           c1 == IF stateReason = "remoteCallBusy"
                 THEN CallEventChange(c, "remoteCallBusy") ELSE c
       IN Destory(c1, ContReject(stateReason, data.rejectReason))

\* the messageReceive listener: decode and dispatch on message_action
MessageReceive(c, payload, ok) ==
  LET data == Decode(payload)
  IN CASE data.message_action = "VideoCall" -> ReceiveVideoCall(c, data, ok)
       [] data.message_action = "Cancel" -> ReceiveCancelCall(c, data)
       [] data.message_action = "Accept" -> ReceiveAccept(c, data)
       [] data.message_action = "Reject" -> ReceiveReject(c, data)
       [] data.message_action = "Hangup" -> ReceiveHangup(c, data)
       [] OTHER -> c

\* The transport delivers the oldest message from `from` to engine e.
Deliver(from, e, ok) ==
  /\ chan[from][e] # <<>>
  /\ LET c == MessageReceive(Ctx(e), Head(chan[from][e]), ok)
     IN Commit(e, c, "messageReceive", Decode(Head(chan[from][e])))
        /\ chan' = SendAll([chan EXCEPT ![from][e] = Tail(@)], e, c.sent)
  /\ UNCHANGED <<rtc, uuid, ncmd>>

\* ----------------------------------------------------------- timer
\* the setTimeout callback of _autoCancelCall.  Every timeout has the same
\* delay, so the oldest pending one fires.
AutoCancelCallFire(c, ok) ==
  LET c0 == [c EXCEPT !.timeouts = Tail(@),
                      !.cancelCallTimer = IF Len(c.timeouts) = 1 THEN "none" ELSE @]
  IN IF c0.state \in {"calling", "connecting"}
     THEN LET c1 == CallStateChange(c0, "prepared", "callingTimeout", NoInfo)
              c2 == CallEventChange(c1, IF Head(c.timeouts).isLocal
                                        THEN "callingTimeout"
                                        ELSE "remoteCallingTimeout")
              c3 == PublishMessage(c2, c2.remoteUserId,
                      [Message("Cancel", c.userId, c2.remoteUserId)
                         EXCEPT !.cancelCallByInternal = "Internal"], ok)
          IN Destory(c3, ContNone)
     ELSE c0

TimerFire(e, ok) ==
  /\ timeouts[e] # <<>>
  /\ Commit(e, AutoCancelCallFire(Ctx(e), ok), "timerFire", 0)
  /\ Send(e, AutoCancelCallFire(Ctx(e), ok))
  /\ UNCHANGED <<rtc, uuid, ncmd>>

\* ------------------------------------------------------ media plane
\* _rtcJoinAndPublish after createTracks and client.join have resolved:
\* tracks stored, _rtcJoined latched, then publish is called.
JoinDoneBody(c) ==
  LET c1 == [c EXCEPT !.pending.join = @ - 1, !.localTracks = "open",
                      !.rtcJoined = TRUE]
      c2 == CallEventChange(CallEventChange(c1, "joinRTCSuccessed"), "localJoined")
  IN [c2 EXCEPT !.pending.publish = @ + 1]

JoinDone(e) ==
  /\ pending[e].join > 0
  /\ Commit(e, JoinDoneBody(Ctx(e)), "joinDone", 0)
  /\ rtc' = [rtc EXCEPT ![e].room = pending[e].joinRoom]
  /\ UNCHANGED <<chan, uuid, ncmd>>

\* _rtcJoinAndPublish of an engine that had already joined: only the tracks
\* were awaited; then publish is called.
TracksDone(e) ==
  /\ pending[e].tracks > 0
  /\ Commit(e, [Ctx(e) EXCEPT !.pending.tracks = @ - 1, !.localTracks = "open",
                              !.pending.publish = @ + 1], "tracksDone", 0)
  /\ UNCHANGED <<rtc, chan, uuid, ncmd>>

\* _createLocalTracks resolving after _rtcJoin threw: the tracks are stored.
OrphanTracksDone(e) ==
  /\ pending[e].orphan > 0
  /\ Commit(e, [Ctx(e) EXCEPT !.pending.orphan = @ - 1, !.localTracks = "open"],
            "orphanTracksDone", 0)
  /\ UNCHANGED <<rtc, chan, uuid, ncmd>>

\* _rtcPublish after client.publish has resolved; publish fails when the client
\* has left the channel or the tracks were closed meanwhile.
PublishDone(e) ==
  /\ pending[e].publish > 0
  /\ LET c == [Ctx(e) EXCEPT !.pending.publish = @ - 1]
         ok == rtc[e].room # 0 /\ localTracks[e] = "open"
     IN /\ Commit(e, IF ok THEN CallEventChange(c, "publishFirstLocalVideoFrame")
                     ELSE CallError(c, "rtcOccurError", "rtc"), "publishDone", 0)
        /\ rtc' = [rtc EXCEPT ![e].published = ok]
  /\ UNCHANGED <<chan, uuid, ncmd>>

\* destory after `await this.rtcClient.leave()` has resolved: localLeft,
\* _resetData, then what the caller of destory does next.
LeaveDoneBody(c) ==
  LET k == Head(c.pending.leave)
      c1 == [c EXCEPT !.pending.leave = Tail(@)]
  IN RunCont(ResetData(CallEventChange(c1, "localLeft")), k)

LeaveDone(e) ==
  /\ pending[e].leave # <<>>
  /\ Commit(e, LeaveDoneBody(Ctx(e)), "leaveDone", 0)
  /\ rtc' = [u \in Engines |->
               IF u = e THEN NoRtc
               ELSE IF rtc[e].room # 0 /\ rtc[u].room = rtc[e].room
               THEN [rtc[u] EXCEPT !.left = @ \cup {e}]
               ELSE rtc[u]]
  /\ UNCHANGED <<chan, uuid, ncmd>>

\* "user-joined"
UserJoinedBody(c, uid) ==
  IF uid # c.remoteUserId THEN c ELSE CallEventChange(c, "remoteJoined")

UserJoined(e, uid) ==
  /\ uid # e /\ rtc[e].room # 0 /\ rtc[uid].room = rtc[e].room
  /\ Commit(e, UserJoinedBody(Ctx(e), uid), "userJoined", uid)
  /\ UNCHANGED <<rtc, chan, uuid, ncmd>>

\* A user-left handler that does not look at the uid.
UserLeftBodyAnyUid(c, uid) ==
  LET c1 == CallEventChange(c, "remoteLeft")
  IN IF IsBusyState(c1.state) THEN Destory(c1, ContUserLeft) ELSE c1

\* "user-left", up to `await this.destory()` and, when destory does not wait,
\* past it.
UserLeftBody(c, uid) ==
  IF uid # c.remoteUserId THEN c
  ELSE LET c1 == CallEventChange(c, "remoteLeft")
       IN IF IsBusyState(c1.state) THEN Destory(c1, ContUserLeft) ELSE c1

UserLeft(e, uid) ==
  /\ uid \in rtc[e].left
  /\ Commit(e, UserLeftBody(Ctx(e), uid), "userLeft", uid)
  /\ rtc' = [rtc EXCEPT ![e].left = @ \ {uid}]
  /\ UNCHANGED <<chan, uuid, ncmd>>

\* "user-published": subscribe, store the track; a video track gets the
\* first-frame-decoded listener, an audio track is played when connected.
\* A user-published handler that stores the audio track and never plays it.
UserPublishedBodyNoPlay(c, uid, mediaType) ==
  IF uid # c.remoteUserId THEN c
  ELSE IF mediaType = "video" THEN [c EXCEPT !.remoteTracks.video = TRUE]
  ELSE [c EXCEPT !.remoteTracks.audio = TRUE]

UserPublishedBody(c, uid, mediaType) ==
  IF uid # c.remoteUserId THEN c
  ELSE IF mediaType = "video" THEN [c EXCEPT !.remoteTracks.video = TRUE]
  ELSE LET c1 == [c EXCEPT !.remoteTracks.audio = TRUE]
       IN IF c1.state = "connected" THEN PlayRemoteAudio(c1) ELSE c1

UserPublished(e, uid, mediaType) ==
  /\ uid # e /\ rtc[e].room # 0 /\ rtc[uid].room = rtc[e].room
  /\ rtc[uid].published
  /\ ~remoteTracks[e][mediaType]
  /\ uid = remoteUserId[e]
  /\ Commit(e, UserPublishedBody(Ctx(e), uid, mediaType), "userPublished", uid)
  /\ rtc' = [rtc EXCEPT ![e].firstFrame = IF mediaType = "video" THEN TRUE ELSE @]
  /\ UNCHANGED <<chan, uuid, ncmd>>

\* "user-unpublished": unsubscribe, drop the track.
UserUnpublishedBody(c, uid, mediaType) ==
  IF uid # c.remoteUserId THEN c
  ELSE IF mediaType = "video" THEN [c EXCEPT !.remoteTracks.video = FALSE]
  ELSE [c EXCEPT !.remoteTracks.audio = FALSE, !.remoteTracks.audioPlaying = FALSE]

\* The media plane announces the tracks of a user who leaves as unpublished
\* before it announces that the user left.
UserUnpublished(e, uid, mediaType) ==
  /\ uid \in rtc[e].left
  /\ Commit(e, UserUnpublishedBody(Ctx(e), uid, mediaType), "userUnpublished", uid)
  /\ UNCHANGED <<rtc, chan, uuid, ncmd>>

\* A first-frame callback that records the frame and does not run the
\* view-attach check.
HandleRemoteFirstFrameDecodedNoCheck(c) ==
  LET c1 == CallEventChange(c, "recvRemoteFirstFrame")
      c2 == [c1 EXCEPT !.firstFrameDecoded = TRUE]
  IN Emit(c2, [kind |-> "callInfoChanged"])

\* _handleRemoteFirstFrameDecoded
HandleRemoteFirstFrameDecoded(c) ==
  LET c1 == CallEventChange(c, "recvRemoteFirstFrame")
      c2 == [c1 EXCEPT !.firstFrameDecoded = TRUE]
      c3 == Emit(c2, [kind |-> "callInfoChanged"])
  IN CheckAppendView(c3)

FirstFrame(e) ==
  /\ rtc[e].firstFrame
  /\ Commit(e, HandleRemoteFirstFrameDecoded(Ctx(e)), "firstFrameDecoded", 0)
  /\ rtc' = [rtc EXCEPT ![e].firstFrame = FALSE]
  /\ UNCHANGED <<chan, uuid, ncmd>>

\* ------------------------------------------------------ specification
\* Engine 1 has been prepared by its application's first prepareForCall and
\* waits for the first frame; engine 2 is either freshly constructed (idle,
\* empty config) or prepared with firstFrameWaittingDisabled toggled on;
\* engine 3 is constructed and never prepared.
Init ==
  /\ state \in [Engines -> {"idle", "prepared"}]
  /\ state[1] = "prepared" /\ state[3] = "idle"
  /\ prepareConfig = [e \in Engines |->
                        IF state[e] = "idle" THEN EmptyConfig
                        ELSE FullConfig(e, e = 2)]
  /\ remoteUserId = [e \in Engines |-> NoUser]
  /\ callId = [e \in Engines |-> NoCallId]
  /\ localTracks = [e \in Engines |-> "none"]
  /\ remoteTracks = [e \in Engines |-> NoTracks]
  /\ rtcJoined = [e \in Engines |-> FALSE]
  /\ firstFrameDecoded = [e \in Engines |-> FALSE]
  /\ cancelCallTimer = [e \in Engines |-> "none"]
  /\ timeouts = [e \in Engines |-> <<>>]
  /\ views = [e \in Engines |-> NoViews]
  /\ pending = [e \in Engines |-> NoPending]
  /\ rtc = [e \in Engines |-> NoRtc]
  /\ chan = [a \in Engines |-> [b \in Engines |-> <<>>]]
  /\ uuid = 0
  /\ ncmd = 0
  /\ legacy = NoLegacy
  /\ attachCount = [e \in Engines |-> 0]
  /\ observed = [e \in Engines |->
                   [kind |-> "state", from |-> "idle", to |-> state[e],
                    reason |-> "none", info |-> NoInfo, callId |-> NoCallId]]

\* Two users, 1 and 2.
Pair == {1, 2}

\* The application issues any command at any time; the transport, the timer
\* and the media plane deliver in any order.
Next ==
  \E e \in Pair :
    \/ ncmd < MaxCmds /\ \E p \in PartialConfigs(e) : PrepareForCall(e, p)
    \/ ncmd < MaxCmds /\ CancelCall(e, TRUE)
    \/ ncmd < MaxCmds /\ \E r \in Pair \ {e} : \E reason \in Reasons : Reject(e, r, reason, TRUE)
    \/ ncmd < MaxCmds /\ \E r \in Pair \ {e} : Accept(e, r, TRUE)
    \/ ncmd < MaxCmds /\ \E r \in Pair \ {e} : Hangup(e, r, TRUE)
    \/ uuid < MaxCalls /\ \E r \in Pair \ {e} : Call(e, r, TRUE)
    \/ CallSendDone(e)
    \/ \E from \in Pair \ {e} : Deliver(from, e, TRUE)
    \/ TimerFire(e, TRUE)
    \/ JoinDone(e)
    \/ OrphanTracksDone(e)
    \/ PublishDone(e)
    \/ LeaveDone(e)
    \/ \E u \in Pair : UserJoined(e, u)
    \/ \E u \in Pair : UserLeft(e, u)
    \/ \E u \in Pair : UserPublished(e, u, "video")
    \/ FirstFrame(e)

Spec == Init /\ [][Next]_vars

\* Both applications have prepared and issue only commands that meet their
\* preconditions: call in prepared, accept of an inbound invite in calling,
\* cancelCall and hangup during a call.
NextValid ==
  \E e \in Pair :
    \/ ncmd < MaxValidCmds /\ IsBusyState(state[e]) /\ CancelCall(e, TRUE)
    \/ ncmd < MaxValidCmds /\ state[e] = "calling"
         /\ observed[e].reason = "remoteVideoCall"
         /\ \E r \in Pair \ {e} : Accept(e, r, TRUE)
    \/ ncmd < MaxValidCmds /\ IsBusyState(state[e])
         /\ \E r \in Pair \ {e} : Hangup(e, r, TRUE)
    \/ uuid < MaxValidCalls /\ state[e] = "prepared"
         /\ \E r \in Pair \ {e} : Call(e, r, TRUE)
    \/ CallSendDone(e)
    \/ \E from \in Pair \ {e} : Deliver(from, e, TRUE)
    \/ TimerFire(e, TRUE)
    \/ JoinDone(e)
    \/ PublishDone(e)
    \/ LeaveDone(e)
    \/ \E u \in Pair : UserLeft(e, u)
    \/ \E u \in Pair : UserPublished(e, u, "video")
    \/ FirstFrame(e)

InitValid == Init /\ \A e \in Pair : state[e] = "prepared"

SpecValid == InitValid /\ [][NextValid]_vars

\* The happy path: both engines prepared, each waiting for the first frame or
\* not, user 1 calls user 2, user 2 accepts; no send fails, no timer fires, nobody
\* tears down.  The transport, the media plane and resumed async functions
\* eventually run (weak fairness); the applications need not act.
InitHappy ==
  /\ state = [e \in Engines |-> IF e \in {1, 2} THEN "prepared" ELSE "idle"]
  /\ \E b1, b2 \in BOOLEAN :
       prepareConfig = [e \in Engines |->
                          IF e = 1 THEN FullConfig(1, b1)
                          ELSE IF e = 2 THEN FullConfig(2, b2) ELSE EmptyConfig]
  /\ remoteUserId = [e \in Engines |-> NoUser]
  /\ callId = [e \in Engines |-> NoCallId]
  /\ localTracks = [e \in Engines |-> "none"]
  /\ remoteTracks = [e \in Engines |-> NoTracks]
  /\ rtcJoined = [e \in Engines |-> FALSE]
  /\ firstFrameDecoded = [e \in Engines |-> FALSE]
  /\ cancelCallTimer = [e \in Engines |-> "none"]
  /\ timeouts = [e \in Engines |-> <<>>]
  /\ views = [e \in Engines |-> NoViews]
  /\ pending = [e \in Engines |-> NoPending]
  /\ rtc = [e \in Engines |-> NoRtc]
  /\ chan = [a \in Engines |-> [b \in Engines |-> <<>>]]
  /\ uuid = 0
  /\ ncmd = 0
  /\ legacy = NoLegacy
  /\ attachCount = [e \in Engines |-> 0]
  /\ observed = [e \in Engines |->
                   [kind |-> "state", from |-> "idle", to |-> state[e],
                    reason |-> "none", info |-> NoInfo, callId |-> NoCallId]]

Media(e) ==
  \/ JoinDone(e)
  \/ PublishDone(e)
  \/ \E u \in Pair : UserJoined(e, u)
  \/ \E u \in Pair : UserPublished(e, u, "video")
  \/ FirstFrame(e)

NextHappy ==
  \/ uuid < MaxHappyCalls /\ state[1] = "prepared" /\ Call(1, 2, TRUE)
  \/ ncmd < MaxHappyCmds /\ state[2] = "calling" /\ Accept(2, 1, TRUE)
  \/ \E e \in Pair :
       \/ CallSendDone(e)
       \/ \E from \in Pair \ {e} : Deliver(from, e, TRUE)
       \/ Media(e)

SpecHappy ==
  /\ InitHappy
  /\ [][NextHappy]_vars
  /\ \A e \in Pair :
       /\ WF_vars(CallSendDone(e))
       /\ WF_vars(\E from \in Pair \ {e} : Deliver(from, e, TRUE))
       /\ WF_vars(Media(e))

\* A caller whose peer never responds: only user 1 acts, nothing is delivered
\* to user 2.  The timer, client.join, createTracks, client.publish and
\* client.leave eventually complete (weak fairness); the application need not
\* act.
NextTimeout ==
  \/ uuid < MaxTimeoutCalls /\ state[1] = "prepared" /\ Call(1, 2, TRUE)
  \/ ncmd < MaxTimeoutCmds /\ IsBusyState(state[1]) /\ CancelCall(1, TRUE)
  \/ CallSendDone(1)
  \/ TimerFire(1, TRUE)
  \/ JoinDone(1)
  \/ TracksDone(1)
  \/ PublishDone(1)
  \/ LeaveDone(1)

SpecTimeout ==
  /\ Init
  /\ [][NextTimeout]_vars
  /\ WF_vars(CallSendDone(1))
  /\ WF_vars(TimerFire(1, TRUE))
  /\ WF_vars(JoinDone(1))
  /\ WF_vars(TracksDone(1))
  /\ WF_vars(PublishDone(1))
  /\ WF_vars(LeaveDone(1))

\* A third user: users 1, 2 and 3 are prepared; user 1 calls user 2 and user 3
\* calls user 1, in any order; user 3 may then cancel, hang up on or reject
\* user 1.  No call timer expires within the scenario.
InitBusy ==
  /\ state = [e \in Engines |-> "prepared"]
  /\ prepareConfig = [e \in Engines |-> FullConfig(e, e = 2)]
  /\ remoteUserId = [e \in Engines |-> NoUser]
  /\ callId = [e \in Engines |-> NoCallId]
  /\ localTracks = [e \in Engines |-> "none"]
  /\ remoteTracks = [e \in Engines |-> NoTracks]
  /\ rtcJoined = [e \in Engines |-> FALSE]
  /\ firstFrameDecoded = [e \in Engines |-> FALSE]
  /\ cancelCallTimer = [e \in Engines |-> "none"]
  /\ timeouts = [e \in Engines |-> <<>>]
  /\ views = [e \in Engines |-> NoViews]
  /\ pending = [e \in Engines |-> NoPending]
  /\ rtc = [e \in Engines |-> NoRtc]
  /\ chan = [a \in Engines |-> [b \in Engines |-> <<>>]]
  /\ uuid = 0
  /\ ncmd = 0
  /\ legacy = NoLegacy
  /\ attachCount = [e \in Engines |-> 0]
  /\ observed = [e \in Engines |->
                   [kind |-> "state", from |-> "idle", to |-> state[e],
                    reason |-> "none", info |-> NoInfo, callId |-> NoCallId]]

NextBusy ==
  \/ uuid < MaxBusyCalls /\ state[1] = "prepared" /\ Call(1, 2, TRUE)
  \/ uuid < MaxBusyCalls /\ state[3] = "prepared" /\ Call(3, 1, TRUE)
  \/ ncmd < MaxBusyCmds /\ CancelCall(3, TRUE)
  \/ ncmd < MaxBusyCmds /\ Hangup(3, 1, TRUE)
  \/ ncmd < MaxBusyCmds /\ Reject(3, 1, "no", TRUE)
  \/ \E e \in Engines :
       \/ CallSendDone(e)
       \/ \E from \in Engines \ {e} : Deliver(from, e, TRUE)
       \/ JoinDone(e)
       \/ PublishDone(e)
       \/ LeaveDone(e)

SpecBusy == InitBusy /\ [][NextBusy]_vars

\* A rejected call: user 1 calls user 2, who rejects the invite once it has
\* it.  No call timer expires within the scenario.
NextReject ==
  \/ uuid < MaxRejectCalls /\ state[1] = "prepared" /\ Call(1, 2, TRUE)
  \/ ncmd < MaxRejectCmds /\ state[2] = "calling"
       /\ observed[2].reason = "remoteVideoCall"
       /\ \E r \in Reasons : Reject(2, 1, r, TRUE)
  \/ \E e \in Pair :
       \/ CallSendDone(e)
       \/ \E from \in Pair \ {e} : Deliver(from, e, TRUE)
       \/ JoinDone(e)
       \/ PublishDone(e)
       \/ LeaveDone(e)
       \/ \E u \in Pair : UserLeft(e, u)
       \/ \E u \in Pair : UserPublished(e, u, "video")
       \/ FirstFrame(e)

SpecReject == InitValid /\ [][NextReject]_vars

\* Sends that may fail: the commands of the two users, issued where they are
\* meant to be, each with a sendMessage that resolves or rejects.  No call
\* timer expires within the scenario.
NextSendFail ==
  \E e \in Pair : \E ok \in BOOLEAN :
    \/ uuid < MaxSendFailCalls /\ state[e] = "prepared"
         /\ \E r \in Pair \ {e} : Call(e, r, ok)
    \/ ncmd < MaxSendFailCmds /\ IsBusyState(state[e]) /\ CancelCall(e, ok)
    \/ ncmd < MaxSendFailCmds /\ state[e] = "calling"
         /\ observed[e].reason = "remoteVideoCall"
         /\ \E r \in Pair \ {e} : Accept(e, r, ok)
    \/ ncmd < MaxSendFailCmds /\ state[e] = "calling"
         /\ observed[e].reason = "remoteVideoCall"
         /\ \E r \in Pair \ {e} : \E rs \in Reasons : Reject(e, r, rs, ok)
    \/ ncmd < MaxSendFailCmds /\ IsBusyState(state[e])
         /\ \E r \in Pair \ {e} : Hangup(e, r, ok)
    \/ CallSendDone(e)
    \/ \E from \in Pair \ {e} : Deliver(from, e, TRUE)
    \/ JoinDone(e)
    \/ PublishDone(e)
    \/ LeaveDone(e)

SpecSendFail == InitValid /\ [][NextSendFail]_vars

\* Crossing calls: each of the two users may call the other, and a user in
\* calling on an inbound invite may accept it.  Nobody tears down and no call
\* timer expires within the scenario.
NextGlare ==
  \E e \in Pair :
    \/ uuid < MaxGlareCalls /\ state[e] = "prepared"
         /\ \E r \in Pair \ {e} : Call(e, r, TRUE)
    \/ ncmd < MaxGlareCmds /\ state[e] = "calling"
         /\ observed[e].reason = "remoteVideoCall"
         /\ \E r \in Pair \ {e} : Accept(e, r, TRUE)
    \/ CallSendDone(e)
    \/ \E from \in Pair \ {e} : Deliver(from, e, TRUE)
    \/ JoinDone(e)
    \/ TracksDone(e)
    \/ PublishDone(e)
    \/ \E u \in Pair : UserPublished(e, u, "video")
    \/ FirstFrame(e)

SpecGlare == InitValid /\ [][NextGlare]_vars

\* No waiting for the first frame: both users are prepared with
\* firstFrameWaittingDisabled, user 1 calls user 2, user 2 accepts; the remote
\* video and audio tracks are published to each side in any order.
InitNoWait ==
  InitHappy /\ \A e \in Pair : prepareConfig[e].firstFrameWaittingDisabled

NextNoWait ==
  \/ uuid < MaxNoWaitCalls /\ state[1] = "prepared" /\ Call(1, 2, TRUE)
  \/ ncmd < MaxNoWaitCmds /\ state[2] = "calling" /\ Accept(2, 1, TRUE)
  \/ \E e \in Pair :
       \/ CallSendDone(e)
       \/ \E from \in Pair \ {e} : Deliver(from, e, TRUE)
       \/ JoinDone(e)
       \/ PublishDone(e)
       \/ \E u \in Pair : \E t \in {"video", "audio"} : UserPublished(e, u, t)
       \/ FirstFrame(e)

SpecNoWait == InitNoWait /\ [][NextNoWait]_vars

\* The media plane: user 1 calls user 2, user 2 may accept, either may hang
\* up; every media event is delivered.  No call timer expires within the
\* scenario.
NextMedia ==
  \/ uuid < MaxMediaCalls /\ state[1] = "prepared" /\ Call(1, 2, TRUE)
  \/ ncmd < MaxMediaCmds /\ state[2] = "calling" /\ Accept(2, 1, TRUE)
  \/ \E e \in Pair :
       \/ ncmd < MaxMediaCmds /\ IsBusyState(state[e])
            /\ \E r \in Pair \ {e} : Hangup(e, r, TRUE)
       \/ CallSendDone(e)
       \/ \E from \in Pair \ {e} : Deliver(from, e, TRUE)
       \/ JoinDone(e)
       \/ PublishDone(e)
       \/ LeaveDone(e)
       \/ \E u \in Pair : UserJoined(e, u)
       \/ \E u \in Pair : UserLeft(e, u)
       \/ \E u \in Pair : \E t \in {"video", "audio"} : UserPublished(e, u, t)
       \/ \E u \in Pair : \E t \in {"video", "audio"} : UserUnpublished(e, u, t)
       \/ FirstFrame(e)

SpecMedia == InitValid /\ [][NextMedia]_vars

\* destory after `await this.rtcClient.leave()` has resolved, for a remote
\* video track that had been subscribed and played but had not yet produced
\* its first frame: the "first-frame-decoded" listener bound to that track in
\* the user-published handler is never removed, so the event can still be
\* delivered after the engine has left and reset.
LeaveDoneFrameLate(e) ==
  /\ pending[e].leave # <<>> /\ rtc[e].firstFrame
  /\ Commit(e, LeaveDoneBody(Ctx(e)), "leaveDone", 0)
  /\ rtc' = [u \in Engines |->
               IF u = e THEN [NoRtc EXCEPT !.firstFrame = TRUE]
               ELSE IF rtc[e].room # 0 /\ rtc[u].room = rtc[e].room
               THEN [rtc[u] EXCEPT !.left = @ \cup {e}]
               ELSE rtc[u]]
  /\ UNCHANGED <<chan, uuid, ncmd>>

\* Two calls in a row between two users who wait for the first frame: user 1
\* calls user 2, user 2 accepts, user 1 hangs up, and once both are back in
\* prepared with nothing of the teardown outstanding user 1 calls again.
InitStale ==
  InitHappy /\ \A e \in Pair : ~prepareConfig[e].firstFrameWaittingDisabled

NextStale ==
  \/ /\ uuid < MaxStaleCalls /\ \A e \in Pair : state[e] = "prepared"
     /\ \A e \in Pair : pending[e].leave = <<>> /\ chan[e][3 - e] = <<>>
     /\ Call(1, 2, TRUE)
  \/ ncmd < MaxStaleCmds /\ state[2] = "calling"
       /\ observed[2].reason = "remoteVideoCall" /\ Accept(2, 1, TRUE)
  \/ ncmd < MaxStaleCmds /\ state[1] \in {"connecting", "connected"}
       /\ Hangup(1, 2, TRUE)
  \/ \E e \in Pair :
       \/ CallSendDone(e)
       \/ \E from \in Pair \ {e} : Deliver(from, e, TRUE)
       \/ JoinDone(e)
       \/ PublishDone(e)
       \/ LeaveDone(e)
       \/ LeaveDoneFrameLate(e)
       \/ \E u \in Pair : UserPublished(e, u, "video")
       \/ FirstFrame(e)

SpecStale == InitStale /\ [][NextStale]_vars

\* A destory whose failed leave is reported and then forgotten: the call data
\* is reset all the same.
LeaveFailBodyReset(c) ==
  Throw(ResetData(CallError([c EXCEPT !.pending.leave = Tail(@)],
                            "rtcOccurError", "rtc")))

\* destory after `await this.rtcClient.leave()` has rejected: the catch emits
\* callError(rtcOccurError, rtc) and rethrows; _resetData is not reached, and
\* neither is what the caller of destory would have done next.
LeaveFailBody(c) ==
  Throw(CallError([c EXCEPT !.pending.leave = Tail(@)], "rtcOccurError", "rtc"))

LeaveFail(e) ==
  /\ pending[e].leave # <<>>
  /\ Commit(e, LeaveFailBody(Ctx(e)), "leaveFail", 0)
  /\ UNCHANGED <<rtc, chan, uuid, ncmd>>

\* Three prepared users and a media plane whose leave may fail: user 1 calls
\* user 2 and then cancels or hangs up, again if need be; user 3 calls user 1.
NextLeaveFail ==
  \/ uuid = 0 /\ Call(1, 2, TRUE)
  \/ ncmd < MaxLeaveFailCmds /\ remoteUserId[1] # NoUser
       /\ pending[1].leave = <<>> /\ Hangup(1, remoteUserId[1], TRUE)
  \/ ncmd < MaxLeaveFailCmds /\ remoteUserId[1] # NoUser
       /\ pending[1].leave = <<>> /\ CancelCall(1, TRUE)
  \/ uuid > 0 /\ uuid < MaxLeaveFailCalls /\ state[3] = "prepared"
       /\ Call(3, 1, TRUE)
  \/ \E e \in Pair :
       \/ JoinDone(e)
       \/ PublishDone(e)
       \/ LeaveDone(e)
       \/ LeaveFail(e)
  \/ \E e \in Engines :
       \/ CallSendDone(e)
       \/ \E from \in Engines \ {e} : Deliver(from, e, TRUE)

SpecLeaveFail == InitBusy /\ [][NextLeaveFail]_vars

\* ------------------------------------------------- the legacy CallApi variant
\* Handlers of the legacy engine are operators on the record `legacy`.  Every
\* await is a step of its own: an async function in flight is an entry of
\* l.ops, [k, send, media, leave], where k names the function ("call",
\* "cancelCall", "reject", "accept", "hangup", "destory", "timeout"), send is
\* "wait" while its _publishMessage awaits sendMessage, media is "join" or
\* "publish" while its _rtcJoinAndPublish awaits, and leave is TRUE while its
\* destory awaits client.leave.
LegacyOp(k, send, media) == [k |-> k, send |-> send, media |-> media, leave |-> FALSE]

RemoveAt(s, i) == SubSeq(s, 1, i - 1) \o SubSeq(s, i + 1, Len(s))

LegacyEmit(l, x) == [l EXCEPT !.out = Append(@, x)]

\* _callStateChange (legacy): nothing when the state is already the target.
LegacyCallStateChange(l, st, reason) ==
  IF l.state = st THEN l
  ELSE LegacyEmit([l EXCEPT !.state = st],
                  [kind |-> "state", to |-> st, reason |-> reason])

\* _callEventChange (legacy): nothing when the event repeats the last one.
LegacyCallEventChange(l, ev) ==
  IF l.callEvent = ev THEN l
  ELSE LegacyEmit([l EXCEPT !.callEvent = ev], [kind |-> "event", event |-> ev])

LegacyCallError(l, ev, type) ==
  LegacyEmit(l, [kind |-> "error", event |-> ev, type |-> type])

\* _resetData (legacy)
LegacyResetData(l) ==
  [l EXCEPT !.callId = NoCallId, !.remoteUserId = NoUser, !.localTracks = "none",
            !.rtcJoined = FALSE, !.rtcPublished = FALSE,
            !.firstFrameDecoded = FALSE, !.callEvent = "none",
            !.cancelCallTimer = "none"]

\* _publishMessage (legacy) up to its await: the function k starts a send.
LegacyPublishMessage(l, k, action) ==
  LegacyEmit([l EXCEPT !.ops = Append(@, LegacyOp(k, "wait", "none"))],
             [kind |-> "send", action |-> action, uid |-> l.remoteUserId])

\* What the async function k does after its destory has returned: the timer
\* callback emits prepared / callingTimeout, a command resolves.
LegacyFinish(l, k) ==
  IF k = "timeout" THEN LegacyCallStateChange(l, "prepared", "callingTimeout")
  ELSE LegacyEmit(l, [kind |-> "return", op |-> k])

\* destory (legacy), called by the function at l.ops[i], up to its await:
\* the local tracks are closed; when joined, leave is awaited, else the data
\* is reset at once.
LegacyDestory(l, i) ==
  LET l1 == [l EXCEPT !.localTracks = IF @ = "open" THEN "closed" ELSE @]
  IN IF l1.rtcJoined THEN [l1 EXCEPT !.ops[i].leave = TRUE]
     ELSE LegacyFinish(LegacyResetData([l1 EXCEPT !.ops = RemoveAt(@, i)]),
                       l.ops[i].k)

\* _checkAppendView (legacy), with both views configured
LegacyCheckAppendView(l) ==
  IF l.state # "connecting" THEN l
  ELSE IF l.prepareConfig.firstFrameWaittingDisabled \/ l.firstFrameDecoded
  THEN LegacyCallStateChange(l, "connected", "recvRemoteFirstFrame")
  ELSE l

\* _autoCancelCall (legacy): arms the timer, replacing a pending one.
LegacyAutoCancelCall(l) ==
  IF l.remoteUserId = NoUser THEN l
  ELSE IF l.prepareConfig.callTimeoutMillisecond # 0
  THEN [l EXCEPT !.cancelCallTimer = "armed"]
  ELSE l

\* call (legacy) after its Promise.all: once both _rtcJoinAndPublish and
\* _publishMessage have settled, remoteUserRecvCall, then the timer is armed.
LegacyCallDone(l, i) ==
  IF l.ops[i].send = "done" /\ l.ops[i].media = "done"
  THEN LegacyEmit(
         LegacyAutoCancelCall(
           LegacyCallEventChange([l EXCEPT !.ops = RemoveAt(@, i)],
                                 "remoteUserRecvCall")),
         [kind |-> "return", op |-> "call"])
  ELSE l

\* _publishMessage (legacy) after sendMessage has settled; a failure is
\* caught: messageFailed, callError(sendMessageFail, message), no rethrow.
\* Then the caller goes on: call waits for its join, accept runs
\* _checkAppendView, cancelCall, reject, hangup and the timer callback run
\* destory.
LegacySendDoneBody(l, i, ok) ==
  LET l1 == IF ok THEN l
            ELSE LegacyCallError(LegacyCallEventChange(l, "messageFailed"),
                                 "sendMessageFail", "message")
      l2 == [l1 EXCEPT !.ops[i].send = "done"]
      k == l.ops[i].k
  IN CASE k = "call" -> LegacyCallDone(l2, i)
       [] k = "accept" ->
            LegacyEmit(LegacyCheckAppendView([l2 EXCEPT !.ops = RemoveAt(@, i)]),
                       [kind |-> "return", op |-> "accept"])
       [] OTHER -> LegacyDestory(l2, i)

\* _rtcJoinAndPublish (legacy) after Promise.all([_createLocalTracks,
\* _rtcJoin]) has settled.  Resolved: tracks stored, joined (localJoin unless
\* it had joined before), then _rtcPublish awaits publish unless already
\* published.  Rejected: caught, callError(rtcOccurError, rtc); tracks says
\* whether _createLocalTracks had stored its tracks.
LegacyJoinDoneBody(l, i, ok, tracks) ==
  IF ok
  THEN LET l1 == [l EXCEPT !.localTracks = "open", !.rtcJoined = TRUE]
           l2 == IF l.rtcJoined THEN l1 ELSE LegacyCallEventChange(l1, "localJoin")
       IN IF l2.rtcPublished
          THEN LegacyCallDone([l2 EXCEPT !.ops[i].media = "done"], i)
          ELSE [l2 EXCEPT !.rtcPublished = TRUE, !.ops[i].media = "publish"]
  ELSE LET l1 == [l EXCEPT !.localTracks = IF tracks THEN "open" ELSE @]
           l2 == LegacyCallError(l1, "rtcOccurError", "rtc")
       IN LegacyCallDone([l2 EXCEPT !.ops[i].media = "done"], i)

\* _rtcJoinAndPublish (legacy) after client.publish has settled.
LegacyPublishDoneBody(l, i, ok) ==
  LET l1 == IF ok THEN l ELSE LegacyCallError(l, "rtcOccurError", "rtc")
  IN LegacyCallDone([l1 EXCEPT !.ops[i].media = "done"], i)

\* A destory that gives up when leave fails: callError and no reset.
LegacyLeaveDoneBodyNoReset(l, i, ok) ==
  LET l1 == [l EXCEPT !.ops = RemoveAt(@, i)]
  IN IF ok
     THEN LegacyFinish(LegacyResetData(LegacyCallEventChange(l1, "localLeave")),
                       l.ops[i].k)
     ELSE LegacyEmit(LegacyCallError(l1, "rtcOccurError", "rtc"),
                     [kind |-> "throw", op |-> l.ops[i].k])

\* destory (legacy) after client.leave has settled: localLeave, or, caught,
\* callError(rtcOccurError, rtc); in both cases _resetData, then the caller
\* goes on.
LegacyLeaveDoneBody(l, i, ok) ==
  LET l1 == [l EXCEPT !.ops = RemoveAt(@, i)]
      l2 == IF ok THEN LegacyCallEventChange(l1, "localLeave")
            ELSE LegacyCallError(l1, "rtcOccurError", "rtc")
  IN LegacyFinish(LegacyResetData(l2), l.ops[i].k)

\* prepareForCall (legacy)
LegacyPrepareForCallBody(l, p) ==
  IF IsBusyState(l.state) THEN LegacyEmit(l, [kind |-> "throw", op |-> "prepareForCall"])
  ELSE LegacyEmit(
         LegacyCallStateChange([l EXCEPT !.prepareConfig = MergeConfig(@, p)],
                               "prepared", "none"),
         [kind |-> "return", op |-> "prepareForCall"])

\* call (legacy) up to its Promise.all
LegacyCallBody(l, remote, id) ==
  IF l.state # "prepared" THEN LegacyEmit(l, [kind |-> "throw", op |-> "call"])
  ELSE LET l1 == [l EXCEPT !.remoteUserId = remote]
           l2 == LegacyCallStateChange(l1, "calling", "localVideoCall")
           l3 == LegacyCallEventChange(l2, "onCalling")
           l4 == [l3 EXCEPT !.callId = id]
       IN LegacyEmit([l4 EXCEPT !.ops = Append(@, LegacyOp("call", "wait", "join"))],
                     [kind |-> "send", action |-> "VideoCall", uid |-> remote])

\* cancelCall (legacy) up to its first await
LegacyCancelCallBody(l) ==
  LegacyPublishMessage(
    LegacyCallEventChange(LegacyCallStateChange(l, "prepared", "localCancel"),
                          "localCancel"),
    "cancelCall", "Cancel")

\* reject (legacy) up to its first await
LegacyRejectBody(l) ==
  LegacyPublishMessage(
    LegacyCallEventChange(LegacyCallStateChange(l, "prepared", "localRejected"),
                          "localRejected"),
    "reject", "Reject")

\* accept (legacy) up to its await
LegacyAcceptBody(l) ==
  IF l.state # "calling" THEN LegacyEmit(l, [kind |-> "throw", op |-> "accept"])
  ELSE LegacyPublishMessage(
         LegacyCallStateChange(LegacyCallEventChange(l, "localAccepted"),
                               "connecting", "localAccepted"),
         "accept", "Accept")

\* hangup (legacy) up to its first await
LegacyHangupBody(l) ==
  LegacyPublishMessage(
    LegacyCallEventChange(LegacyCallStateChange(l, "prepared", "localHangup"),
                          "localHangup"),
    "hangup", "Hangup")

\* destory (legacy) called by the application
LegacyDestoryBody(l) ==
  LegacyDestory([l EXCEPT !.ops = Append(@, LegacyOp("destory", "done", "none"))],
                Len(l.ops) + 1)

\* The setTimeout callback of _autoCancelCall (legacy), up to its first await
LegacyTimerFireBody(l) ==
  LET l1 == [l EXCEPT !.cancelCallTimer = "fired"]
  IN IF l1.state \in {"calling", "connecting"}
     THEN LegacyPublishMessage(l1, "timeout", "Cancel")
     ELSE l1

\* One step of the legacy engine: the emissions of the step replace those of
\* the step before.
LegacyStep(post) ==
  /\ legacy' = post
  /\ UNCHANGED engineVars

LegacyNow == [legacy EXCEPT !.out = <<>>]

LegacyPrepareForCall ==
  /\ legacy.state = "idle"
  /\ \E ffwd \in BOOLEAN :
       LegacyStep(LegacyPrepareForCallBody(LegacyNow, FullConfig(1, ffwd)))
  /\ UNCHANGED <<uuid, ncmd>>

LegacyCall ==
  /\ uuid < MaxLegacyCalls /\ legacy.state # "idle"
  /\ LegacyStep(LegacyCallBody(LegacyNow, 2, uuid + 1))
  /\ uuid' = uuid + 1
  /\ UNCHANGED ncmd

LegacyCommand ==
  /\ ncmd < MaxLegacyCmds /\ legacy.state # "idle"
  /\ \E post \in {LegacyCancelCallBody(LegacyNow), LegacyRejectBody(LegacyNow),
                  LegacyAcceptBody(LegacyNow), LegacyHangupBody(LegacyNow),
                  LegacyDestoryBody(LegacyNow)} :
       LegacyStep(post)
  /\ ncmd' = ncmd + 1
  /\ UNCHANGED uuid

LegacyTimerFire ==
  /\ legacy.cancelCallTimer = "armed"
  /\ LegacyStep(LegacyTimerFireBody(LegacyNow))
  /\ UNCHANGED <<uuid, ncmd>>

LegacySendDone ==
  /\ \E i \in 1..Len(legacy.ops) : \E ok \in BOOLEAN :
       /\ legacy.ops[i].send = "wait"
       /\ LegacyStep(LegacySendDoneBody(LegacyNow, i, ok))
  /\ UNCHANGED <<uuid, ncmd>>

LegacyJoinDone ==
  /\ \E i \in 1..Len(legacy.ops) : \E ok, tracks \in BOOLEAN :
       /\ legacy.ops[i].media = "join"
       /\ LegacyStep(LegacyJoinDoneBody(LegacyNow, i, ok, tracks))
  /\ UNCHANGED <<uuid, ncmd>>

LegacyPublishDone ==
  /\ \E i \in 1..Len(legacy.ops) : \E ok \in BOOLEAN :
       /\ legacy.ops[i].media = "publish"
       /\ LegacyStep(LegacyPublishDoneBody(LegacyNow, i, ok))
  /\ UNCHANGED <<uuid, ncmd>>

LegacyLeaveDone ==
  /\ \E i \in 1..Len(legacy.ops) : \E ok \in BOOLEAN :
       /\ legacy.ops[i].leave
       /\ LegacyStep(LegacyLeaveDoneBody(LegacyNow, i, ok))
  /\ UNCHANGED <<uuid, ncmd>>

\* One legacy engine, its application and an environment in which every
\* sendMessage, join, publish and leave may fail.
NextLegacy ==
  \/ LegacyPrepareForCall
  \/ LegacyCall
  \/ LegacyCommand
  \/ LegacyTimerFire
  \/ LegacySendDone
  \/ LegacyJoinDone
  \/ LegacyPublishDone
  \/ LegacyLeaveDone

SpecLegacy == InitValid /\ [][NextLegacy]_vars

\* ------------------------------------------------------ handler runs
\* Every handler that can run in engine e in the current state, with the
\* engine record it ends in (post.out is what it emitted, post.sent what it sent).
Run(op, arg, post) == [op |-> op, arg |-> arg, post |-> post]

\* Commands issued whatever the state.
CommandRuns(e) ==
  {Run("prepareForCall", 0, PrepareForCallBody(Ctx(e), p)) : p \in PartialConfigs(e)}
  \cup {Run("call", r, CallBody(Ctx(e), r, uuid + 1, TRUE)) : r \in Pair \ {e}}
  \cup {Run("cancelCall", 0, CancelCallBody(Ctx(e), TRUE))}
  \cup {Run("reject", r, RejectBody(Ctx(e), r, "no", TRUE)) : r \in Pair \ {e}}
  \cup {Run("accept", r, AcceptBody(Ctx(e), r, TRUE)) : r \in Pair \ {e}}
  \cup {Run("hangup", r, HangupBody(Ctx(e), r, TRUE)) : r \in Pair \ {e}}

\* Commands that meet their stated preconditions.
ValidCommandRuns(e) ==
  {run \in CommandRuns(e) :
     /\ run.op = "prepareForCall" => ~IsBusyState(state[e])
     /\ run.op = "call" => state[e] = "prepared"
     /\ run.op = "accept" => state[e] = "calling"}

\* Inbound messages, the timer, the media plane, resumed async functions.
EnvironmentRuns(e) ==
  {Run("messageReceive", from, MessageReceive(Ctx(e), Head(chan[from][e]), TRUE)) :
     from \in {f \in Pair \ {e} : chan[f][e] # <<>>}}
  \cup {Run("timerFire", 0, AutoCancelCallFire(Ctx(e), TRUE)) :
          x \in {y \in {0} : cancelCallTimer[e] # "none"}}
  \cup {Run("callSendDone", 0, CallEventChange([Ctx(e) EXCEPT !.pending.call = @ - 1],
                                               "remoteUserRecvCall")) :
          x \in {y \in {0} : pending[e].call > 0}}
  \cup {Run("joinDone", 0, JoinDoneBody(Ctx(e))) :
          x \in {y \in {0} : pending[e].join > 0}}
  \cup {Run("leaveDone", 0, LeaveDoneBody(Ctx(e))) :
          x \in {y \in {0} : pending[e].leave # <<>>}}
  \cup {Run("userJoined", u, UserJoinedBody(Ctx(e), u)) :
          u \in {v \in Pair \ {e} : rtc[e].room # 0 /\ rtc[v].room = rtc[e].room}}
  \cup {Run("userLeft", u, UserLeftBody(Ctx(e), u)) : u \in rtc[e].left}
  \cup {Run("userPublished", u, UserPublishedBody(Ctx(e), u, t)) :
          u \in {v \in Pair \ {e} : /\ rtc[e].room # 0 /\ rtc[v].room = rtc[e].room
                                     /\ rtc[v].published /\ v = remoteUserId[e]},
          t \in {m \in {"video", "audio"} : ~remoteTracks[e][m]}}
  \cup {Run("firstFrameDecoded", 0, HandleRemoteFirstFrameDecoded(Ctx(e))) :
          x \in {y \in {0} : rtc[e].firstFrame}}

\* ================================================================ claims

\* The transition graph of the call state.
Edges ==
  {<<"idle", "prepared">>, <<"prepared", "calling">>, <<"calling", "connecting">>,
   <<"connecting", "connected">>, <<"calling", "prepared">>,
   <<"connecting", "prepared">>, <<"connected", "prepared">>}

LegalEdges(o) ==
  \A i \in 1..Len(o) : o[i].kind = "state" => <<o[i].from, o[i].to>> \in Edges

\* C1: when the applications issue only commands that meet their
\* preconditions, every callStateChanged any engine emits, whatever handler
\* emits it, is an edge of the transition graph.
C1_OnlyLegalEdges ==
  \A e \in Pair :
    \A run \in ValidCommandRuns(e) \cup EnvironmentRuns(e) :
      LegalEdges(run.post.out)

\* C2: getCallId() is non-empty exactly when the state is calling, connecting
\* or connected: in every reachable state, and in the state an observer sees
\* inside each callStateChanged callback.
C2_CallIdIffBusy ==
  \A e \in Pair :
    /\ (callId[e] # NoCallId) <=> IsBusyState(state[e])
    /\ \A run \in ValidCommandRuns(e) \cup EnvironmentRuns(e) :
         \A i \in 1..Len(run.post.out) :
           run.post.out[i].kind = "state" =>
             ((run.post.out[i].callId # NoCallId) <=> IsBusyState(run.post.out[i].to))

Mismatch == <<[kind |-> "event", event |-> "stateMismatch"], [kind |-> "throw"]>>

\* C3: call() in a state other than prepared fails, emits stateMismatch and
\* nothing else (no callError), sends nothing, and leaves every field of the
\* engine (state, remoteUserId, callId, timer, media session) as it was.
C3_CallMismatch ==
  \A e \in Pair : \A r \in Pair \ {e} :
    state[e] # "prepared" =>
      LET post == CallBody(Ctx(e), r, uuid + 1, TRUE)
      IN /\ post.out = Mismatch
         /\ post.sent = <<>>
         /\ [post EXCEPT !.out = <<>>] = Ctx(e)

\* C3 witness: an engine in a call on which call() is tried and fails.
C3_Witness ==
  \E e \in Pair : \E r \in Pair \ {e} :
    /\ state[e] = "connected" /\ cancelCallTimer[e] # "none" /\ rtcJoined[e]
    /\ CallBody(Ctx(e), r, uuid + 1, TRUE).out = Mismatch

Sends(o) == SelectSeq(o, LAMBDA x : x.kind = "send")

\* C4: accept() outside calling fails with stateMismatch, sends nothing and
\* keeps the state; in calling it emits localAccepted, then the state change to
\* connecting (reason localAccepted), then sends one Accept to remoteUserId.
C4_Accept ==
  \A e \in Pair : \A r \in Pair \ {e} :
    LET post == AcceptBody(Ctx(e), r, TRUE)
    IN IF state[e] # "calling"
       THEN post.out = Mismatch /\ post.sent = <<>> /\ post.state = state[e]
       ELSE /\ Len(post.out) >= 3
            /\ post.out[1] = [kind |-> "event", event |-> "localAccepted"]
            /\ post.out[2].kind = "state"
            /\ post.out[2].from = "calling" /\ post.out[2].to = "connecting"
            /\ post.out[2].reason = "localAccepted"
            /\ post.out[3].kind = "send" /\ post.out[3].uid = r
            /\ post.out[3].msg.message_action = "Accept"
            /\ Len(Sends(post.out)) = 1
            /\ Len(post.sent) = 1 /\ post.sent[1][1] = r
            /\ Decode(post.sent[1][2]).message_action = "Accept"

\* C4 witness: an engine has accepted: its listener saw connecting with reason
\* localAccepted and its Accept is on the way to the peer.
C4_Witness ==
  \E e \in Pair : \E r \in Pair \ {e} :
    /\ state[e] = "connecting"
    /\ observed[e].from = "calling" /\ observed[e].reason = "localAccepted"
    /\ chan[e][r] # <<>>
    /\ Decode(chan[e][r][Len(chan[e][r])]).message_action = "Accept"

\* C5: prepareForCall while busy fails with stateMismatch and keeps state and
\* prepareConfig; in idle or prepared it lays the given fields over the
\* existing config and the state is prepared; repeated in prepared it emits no
\* callStateChanged.
C5_PrepareForCall ==
  \A e \in Pair : \A p \in PartialConfigs(e) :
    LET post == PrepareForCallBody(Ctx(e), p)
    IN IF state[e] \in {"calling", "connecting", "connected"}
       THEN /\ post.out = Mismatch
            /\ post.state = state[e]
            /\ post.prepareConfig = prepareConfig[e]
       ELSE /\ post.state = "prepared"
            /\ \A k \in DOMAIN EmptyConfig :
                 post.prepareConfig[k] = IF k \in DOMAIN p THEN p[k]
                                         ELSE prepareConfig[e][k]
            /\ state[e] = "prepared" => post.out = <<>>
            /\ state[e] = "idle" =>
                 /\ Len(post.out) = 1
                 /\ post.out[1].kind = "state" /\ post.out[1].to = "prepared"
                 /\ post.out[1].reason = "none"

\* C5 witness: an engine constructed idle has been prepared with only the
\* firstFrameWaittingDisabled toggle, merged over its empty config.
C5_Witness ==
  \E e \in Pair :
    /\ state[e] = "prepared" /\ observed[e].from = "idle"
    /\ observed[e].to = "prepared"
    /\ prepareConfig[e].firstFrameWaittingDisabled /\ ~prepareConfig[e].rtcToken

\* C7: connected is entered only by the view-attach check (run by accept, by an
\* inbound Accept, or by the first-frame callback), only from connecting and
\* only when firstFrameWaittingDisabled or the first-frame flag is set; in any
\* other state, or in connecting with neither set, the check changes nothing.
C7_ConnectedOnlyByCheck ==
  \A e \in Pair :
    /\ \A run \in CommandRuns(e) \cup EnvironmentRuns(e) :
         \A i \in 1..Len(run.post.out) :
           (run.post.out[i].kind = "state" /\ run.post.out[i].to = "connected") =>
             /\ run.post.out[i].from = "connecting"
             /\ run.post.out[i].reason = "recvRemoteFirstFrame"
             /\ run.op \in {"accept", "messageReceive", "firstFrameDecoded"}
             /\ \/ run.post.prepareConfig.firstFrameWaittingDisabled
                \/ run.post.firstFrameDecoded
    /\ \A run \in CommandRuns(e) \cup EnvironmentRuns(e) :
         (run.post.state = "connected" /\ state[e] # "connected") =>
           \E i \in 1..Len(run.post.out) :
             run.post.out[i].kind = "state" /\ run.post.out[i].to = "connected"
    /\ (\/ state[e] # "connecting"
        \/ ~(prepareConfig[e].firstFrameWaittingDisabled \/ firstFrameDecoded[e]))
         => CheckAppendView(Ctx(e)) = Ctx(e)

\* C7 witness: an engine that waits for the first frame has become connected
\* through the first-frame callback.
C7_Witness ==
  \E e \in Pair :
    /\ state[e] = "connected" /\ observed[e].from = "connecting"
    /\ observed[e].reason = "recvRemoteFirstFrame"
    /\ ~prepareConfig[e].firstFrameWaittingDisabled /\ firstFrameDecoded[e]

\* C8: within one call the transition to connected and the attachment of the
\* views happen at most once, and views are attached only while the state is
\* connected.
C8_AttachOncePerCall ==
  \A e \in Pair :
    /\ attachCount[e] <= 1
    /\ (views[e].localView \/ views[e].remoteView) => state[e] = "connected"

\* C9: with callTimeoutMillisecond configured, the timer is pending exactly
\* when the state is calling or connecting.
C9_TimerIffCallingOrConnecting ==
  \A e \in Pair :
    prepareConfig[e].callTimeoutMillisecond # 0 =>
      ((cancelCallTimer[e] # "none") <=> state[e] \in {"calling", "connecting"})

\* What each listener may see next on the happy path: the caller calling
\* (localVideoCall), connecting (remoteAccepted), connected; the callee calling
\* (remoteVideoCall), connecting (localAccepted), connected.
HappyOrder ==
  {<<1, "prepared", "calling", "localVideoCall">>,
   <<1, "calling", "connecting", "remoteAccepted">>,
   <<2, "prepared", "calling", "remoteVideoCall">>,
   <<2, "calling", "connecting", "localAccepted">>,
   <<1, "connecting", "connected", "recvRemoteFirstFrame">>,
   <<2, "connecting", "connected", "recvRemoteFirstFrame">>}

\* Every callStateChanged of a handler that can run now is the next one of
\* HappyOrder for its engine.
HappyStep ==
  \A e \in Pair :
    \A run \in ValidCommandRuns(e) \cup EnvironmentRuns(e) :
      (run.op = "call" => e = 1 /\ uuid < MaxHappyCalls) /\
      (run.op = "accept" => e = 2 /\ ncmd < MaxHappyCmds) /\
      run.op \in {"call", "accept", "callSendDone", "messageReceive", "joinDone",
                  "userJoined", "userPublished", "firstFrameDecoded"}
      => \A i \in 1..Len(run.post.out) :
           run.post.out[i].kind = "state" =>
             <<e, run.post.out[i].from, run.post.out[i].to,
               run.post.out[i].reason>> \in HappyOrder

BothConnected ==
  \A e \in Pair :
    /\ state[e] = "connected"
    /\ observed[e].from = "connecting" /\ observed[e].reason = "recvRemoteFirstFrame"

\* C6: on the happy path user 2 observes calling (remoteVideoCall) then
\* connecting (localAccepted), user 1 observes calling then connecting
\* (remoteAccepted), and once user 2 has accepted both engines eventually are
\* connected with reason recvRemoteFirstFrame.
C6_HappyPath ==
  /\ []HappyStep
  /\ (state[2] \in {"connecting", "connected"}) ~> BothConnected

\* C6 witness: both connected, each having decoded the first remote frame, the
\* caller having seen its invite delivered.
C6_Witness ==
  /\ BothConnected
  /\ \A e \in Pair : firstFrameDecoded[e] /\ ~prepareConfig[e].firstFrameWaittingDisabled
  /\ pending[1].call = 0

\* What the timer callback does in the current state of engine e, user 1
\* being the caller and user 2 the callee.
FireOk(e) ==
  LET post == AutoCancelCallFire(Ctx(e), TRUE)
  IN IF state[e] \in {"calling", "connecting"}
     THEN /\ Len(post.out) = 3
          /\ post.out[1].kind = "state" /\ post.out[1].to = "prepared"
          /\ post.out[1].reason = "callingTimeout"
          /\ post.out[2] = [kind |-> "event",
                            event |-> IF e = 1 THEN "callingTimeout"
                                      ELSE "remoteCallingTimeout"]
          /\ post.out[3].kind = "send" /\ post.out[3].uid = remoteUserId[e]
          /\ post.out[3].msg.message_action = "Cancel"
          /\ post.out[3].msg.cancelCallByInternal = "Internal"
          /\ post.state = "prepared"
          /\ post.pending.leave # <<>> \/ post.callId = NoCallId
     ELSE /\ post.out = <<>> /\ post.sent = <<>>
          /\ [post EXCEPT !.cancelCallTimer = cancelCallTimer[e],
                          !.timeouts = timeouts[e]] = Ctx(e)

\* C10: a timer that fires in calling or connecting changes the state to
\* prepared (callingTimeout), emits callingTimeout or remoteCallingTimeout,
\* sends one Cancel marked Internal and tears down; fired in any other state it
\* changes nothing.  Hence a caller whose peer never responds eventually
\* returns to prepared.
C10_TimeoutReturnsToPrepared ==
  /\ [](\A e \in Pair : cancelCallTimer[e] # "none" => FireOk(e))
  /\ (state[1] = "calling") ~> (state[1] = "prepared")

\* C11: the engine holds a media session (_rtcJoined, local tracks held)
\* exactly when the state is calling, connecting or connected.
C11_MediaSessionIffBusy ==
  \A e \in Pair :
    (rtcJoined[e] /\ localTracks[e] = "open") <=> IsBusyState(state[e])

\* The callStateChanged(prepared) emissions among what a handler emitted.
ToPrepared(o) == SelectSeq(o, LAMBDA x : x.kind = "state" /\ x.to = "prepared")

\* The handler has emitted prepared and the destory it started still awaits
\* client.leave.
StateBeforeDestroy(e, post) ==
  /\ Len(ToPrepared(post.out)) = 1
  /\ Len(post.pending.leave) = Len(pending[e].leave) + 1
  /\ post.rtcJoined /\ post.callId = callId[e]

\* C16: on the cancel, hangup and remote-leave (user-left) paths the engine
\* emits callStateChanged(prepared) before the teardown of that path
\* completes; on the remote-reject path it emits the state only after destory
\* has completed.
C16_StateBeforeDestroyExceptReject ==
  \A e \in Pair :
    (rtcJoined[e] /\ IsBusyState(state[e]) /\ remoteUserId[e] # NoUser) =>
      /\ StateBeforeDestroy(e, CancelCallBody(Ctx(e), TRUE))
      /\ StateBeforeDestroy(e, HangupBody(Ctx(e), remoteUserId[e], TRUE))
      /\ \A f \in Pair \ {e} :
           (chan[f][e] # <<>> /\ f = remoteUserId[e]) =>
             LET data == Decode(Head(chan[f][e]))
                 post == MessageReceive(Ctx(e), Head(chan[f][e]), TRUE)
             IN /\ data.message_action \in {"Cancel", "Hangup"} =>
                     StateBeforeDestroy(e, post)
                /\ data.message_action = "Reject" =>
                     /\ ToPrepared(post.out) = <<>>
                     /\ post.state = state[e]
                     /\ Len(post.pending.leave) = Len(pending[e].leave) + 1
      /\ \A u \in rtc[e].left :
           u = remoteUserId[e] => StateBeforeDestroy(e, UserLeftBody(Ctx(e), u))

\* The call data after _resetData.
IsReset(post) ==
  /\ post.localTracks = "none" /\ ~post.rtcJoined
  /\ post.cancelCallTimer = "none" /\ post.remoteUserId = NoUser
  /\ post.callId = NoCallId /\ ~post.firstFrameDecoded

\* A destory called on the engine record post changes nothing, awaits no
\* leave and emits nothing.
SecondDestroyIsNoOp(post) ==
  LET p0 == [post EXCEPT !.out = <<>>, !.sent = <<>>]
  IN Destory(p0, ContNone) = p0

LocalLeft == [kind |-> "event", event |-> "localLeft"]

BusyReject(e, f) ==
  [Message("Reject", e, f) EXCEPT !.callId = callId[e], !.rejectReason = "busy",
                                  !.rejectByInternal = "Internal"]

RemoteCallBusy == [kind |-> "event", event |-> "remoteCallBusy"]

PreparedByBusy(x) ==
  /\ x.kind = "state" /\ x.to = "prepared" /\ x.reason = "remoteCallBusy"
  /\ x.info.rejectReason = "busy"

\* C13: an engine committed to a peer that receives a VideoCall from another
\* user emits no callStateChanged, keeps every field (state, remoteUserId,
\* callId, timer) and sends exactly one Reject to that user, with rejectReason
\* "busy" and rejectByInternal Internal.  The user so rejected emits event
\* remoteCallBusy first and changes to prepared with reason remoteCallBusy: at
\* once when it has not joined, else when its leave resolves.
C13_BusyAutoReject ==
  \A e \in Engines : \A f \in Engines \ {e} :
    /\ (chan[f][e] # <<>> /\ Decode(Head(chan[f][e])).message_action = "VideoCall"
        /\ remoteUserId[e] \notin {NoUser, f}) =>
         LET post == MessageReceive(Ctx(e), Head(chan[f][e]), TRUE)
         IN /\ post.out = <<[kind |-> "send", uid |-> f, msg |-> BusyReject(e, f)]>>
            /\ post.sent = <<<<f, Encode(callId[e], BusyReject(e, f))>>>>
            /\ [post EXCEPT !.out = <<>>, !.sent = <<>>] = Ctx(e)
    /\ (chan[f][e] # <<>> /\ Decode(Head(chan[f][e])).message_action = "Reject"
        /\ Decode(Head(chan[f][e])).rejectByInternal = "Internal"
        /\ remoteUserId[e] = f /\ IsBusyState(state[e])) =>
         LET post == MessageReceive(Ctx(e), Head(chan[f][e]), TRUE)
         IN /\ post.out[1] = RemoteCallBusy
            /\ post.sent = <<>>
            /\ IF rtcJoined[e]
               THEN /\ post.out = <<RemoteCallBusy>>
                    /\ post.pending.leave =
                         Append(pending[e].leave, ContReject("remoteCallBusy", "busy"))
               ELSE /\ Len(post.out) = 3 /\ PreparedByBusy(post.out[2])
                    /\ post.out[3] = [kind |-> "event", event |-> "remoteRejected"]
                    /\ post.state = "prepared"
    /\ (pending[e].leave # <<>> /\ Head(pending[e].leave).k = "reject"
        /\ Head(pending[e].leave).stateReason = "remoteCallBusy"
        /\ IsBusyState(state[e])) =>
         LET post == LeaveDoneBody(Ctx(e))
         IN /\ Len(post.out) = 3 /\ post.out[1] = LocalLeft
            /\ PreparedByBusy(post.out[2]) /\ post.state = "prepared"

\* C13 witness: user 1 is still in its call with user 2, unchanged, and user 3,
\* whose invite it rejected, has been told prepared / remoteCallBusy.
C13_Witness ==
  /\ IsBusyState(state[1]) /\ remoteUserId[1] = 2
  /\ observed[1].reason = "localVideoCall"
  /\ state[3] = "prepared" /\ PreparedByBusy(observed[3])
  /\ chan[1][3] = <<>> /\ chan[3][1] = <<>>

\* A Reject, Cancel or Hangup from user f is the oldest message for engine e,
\* which is committed to another user.
InterloperAtHead(e, f) ==
  /\ chan[f][e] # <<>>
  /\ Decode(Head(chan[f][e])).message_action \in {"Reject", "Cancel", "Hangup"}
  /\ Decode(Head(chan[f][e])).fromUserId = f
  /\ remoteUserId[e] \notin {NoUser, f}

\* C14: while an engine is committed to a peer, a Reject, Cancel or Hangup
\* from any other user changes no field of the engine, emits nothing, starts
\* no teardown and sends nothing.
C14_InterloperIgnored ==
  \A e \in Engines : \A f \in Engines \ {e} :
    InterloperAtHead(e, f) =>
      MessageReceive(Ctx(e), Head(chan[f][e]), TRUE) = Ctx(e)

\* C14 witness: user 1 is in its call with user 2 when a Cancel, Hangup or
\* Reject of user 3 arrives.
C14_Witness ==
  /\ InterloperAtHead(1, 3) /\ IsBusyState(state[1]) /\ remoteUserId[1] = 2
  /\ rtcJoined[1] /\ cancelCallTimer[1] # "none"

\* Nothing is in flight: no message, no awaited operation, no media event.
Quiescent ==
  /\ \A a, b \in Engines : chan[a][b] = <<>>
  /\ \A e \in Engines :
       /\ pending[e].call = 0 /\ pending[e].join = 0 /\ pending[e].tracks = 0
       /\ pending[e].orphan = 0 /\ pending[e].publish = 0
       /\ pending[e].leave = <<>> /\ rtc[e].left = {}

\* The emissions teardown ends with after a Reject carrying data.
RejectedTail(data) ==
  <<[kind |-> "state", to |-> "prepared",
     reason |-> IF data.rejectByInternal = "Internal"
                THEN "remoteCallBusy" ELSE "remoteRejected",
     rejectReason |-> data.rejectReason],
    [kind |-> "event", event |-> "remoteRejected"]>>

StateTail(o) ==
  IF Len(o) < 2 \/ o[Len(o) - 1].kind # "state" THEN <<>>
  ELSE <<[kind |-> "state", to |-> o[Len(o) - 1].to,
          reason |-> o[Len(o) - 1].reason,
          rejectReason |-> o[Len(o) - 1].info.rejectReason],
         o[Len(o)]>>

\* C15: on a Reject from the committed peer the engine tears down first (the
\* leave, when joined, is awaited with no state change emitted before it) and
\* then emits the change to prepared with reason remoteCallBusy or
\* remoteRejected and the sender's rejectReason, then event remoteRejected;
\* and once user 2 has rejected user 1's call and nothing is in flight, user 1
\* is in prepared by remoteRejected with user 2's reason, user 2 is in prepared
\* by localRejected, and neither is in the media channel.
C15_RejectTearsDownThenReports ==
  /\ \A e \in Pair : \A f \in Pair \ {e} :
       /\ (chan[f][e] # <<>> /\ Decode(Head(chan[f][e])).message_action = "Reject"
           /\ remoteUserId[e] = f /\ IsBusyState(state[e])) =>
            LET data == Decode(Head(chan[f][e]))
                post == MessageReceive(Ctx(e), Head(chan[f][e]), TRUE)
            IN IF rtcJoined[e]
               THEN /\ StateChanges(post.out) = <<>>
                    /\ post.pending.leave =
                         Append(pending[e].leave,
                                ContReject(RejectedTail(data)[1].reason, data.rejectReason))
               ELSE StateTail(post.out) = RejectedTail(data)
       /\ (pending[e].leave # <<>> /\ Head(pending[e].leave).k = "reject"
           /\ IsBusyState(state[e])) =>
            LET post == LeaveDoneBody(Ctx(e))
            IN /\ post.out[1] = LocalLeft /\ Len(post.out) = 3
               /\ post.out[2].kind = "state" /\ post.out[2].to = "prepared"
               /\ post.out[2].reason = Head(pending[e].leave).stateReason
               /\ post.out[2].info.rejectReason = Head(pending[e].leave).rejectReason
               /\ post.out[3] = [kind |-> "event", event |-> "remoteRejected"]
  /\ (Quiescent /\ observed[2].reason = "localRejected") =>
       /\ state[1] = "prepared" /\ observed[1].reason = "remoteRejected"
       /\ observed[1].info.rejectReason \in Reasons
       /\ state[2] = "prepared"
       /\ \A e \in Pair : ~rtcJoined[e] /\ rtc[e].room = 0

\* C17: when the caller, in calling after its call(), cancels, it changes to
\* prepared with reason localCancel, emits localCancelled and sends exactly
\* one Cancel, marked External, to the user it called; the called user, on
\* that Cancel, changes to prepared with reason remoteCancel and
\* cancelCallByInternal External and tears down.
C17_CallerCancels ==
  \A e \in Pair :
    /\ (state[e] = "calling" /\ observed[e].reason = "localVideoCall") =>
         LET post == CancelCallBody(Ctx(e), TRUE)
         IN /\ Len(post.out) = 3
            /\ post.out[1].kind = "state" /\ post.out[1].to = "prepared"
            /\ post.out[1].reason = "localCancel"
            /\ post.out[2] = [kind |-> "event", event |-> "localCancelled"]
            /\ post.out[3].kind = "send"
            /\ post.out[3].uid = observed[e].info.remoteUserId
            /\ post.out[3].msg.message_action = "Cancel"
            /\ post.out[3].msg.cancelCallByInternal = "External"
            /\ Len(post.sent) = 1
    /\ \A f \in Pair \ {e} :
         (chan[f][e] # <<>> /\ Decode(Head(chan[f][e])).message_action = "Cancel"
          /\ Decode(Head(chan[f][e])).cancelCallByInternal = "External"
          /\ state[e] = "calling" /\ remoteUserId[e] = f) =>
           LET post == MessageReceive(Ctx(e), Head(chan[f][e]), TRUE)
           IN /\ Len(StateChanges(post.out)) = 1
              /\ post.out[1].kind = "state" /\ post.out[1].to = "prepared"
              /\ post.out[1].reason = "remoteCancel"
              /\ post.out[1].info.cancelCallByInternal = "External"
              /\ IF rtcJoined[e]
                 THEN post.pending.leave = Append(pending[e].leave, ContNone)
                 ELSE IsReset(post)

RtcOccurError == [kind |-> "error", event |-> "rtcOccurError", type |-> "rtc"]

\* C18: when the media join started by call() fails, the engine emits
\* callError(rtcOccurError, rtc) and call() itself fails.
C18_CallFailsOnMediaFailure ==
  \A e \in Pair : \A r \in Pair \ {e} :
    (state[e] = "prepared" /\ ~rtcJoined[e]
     /\ (prepareConfig[e].roomId = 0 \/ ~prepareConfig[e].rtcToken)) =>
      LET post == CallBody(Ctx(e), r, uuid + 1, TRUE)
      IN /\ Len(SelectSeq(post.out, LAMBDA x : x = RtcOccurError)) = 1
         /\ post.out[Len(post.out)] = [kind |-> "throw"]

SendMessageFail == [kind |-> "error", event |-> "sendMessageFail", type |-> "message"]

\* The command whose result is post made one send, which failed: one
\* callError(sendMessageFail, message), nothing sent, and the command throws.
SendFailed(post) ==
  /\ Len(Sends(post.out)) = 1
  /\ Len(SelectSeq(post.out, LAMBDA x : x = SendMessageFail)) = 1
  /\ post.sent = <<>>
  /\ post.out[Len(post.out)] = [kind |-> "throw"]

\* C19: when the sendMessage of call, accept, cancelCall, reject or hangup
\* fails, the engine emits exactly one callError(sendMessageFail, message) and
\* the command fails.
C19_SendFailureSurfaces ==
  \A e \in Pair : \A r \in Pair \ {e} :
    /\ state[e] = "prepared" => SendFailed(CallBody(Ctx(e), r, uuid + 1, FALSE))
    /\ state[e] = "calling" => SendFailed(AcceptBody(Ctx(e), r, FALSE))
    /\ SendFailed(CancelCallBody(Ctx(e), FALSE))
    /\ \A rs \in Reasons : SendFailed(RejectBody(Ctx(e), r, rs, FALSE))
    /\ SendFailed(HangupBody(Ctx(e), r, FALSE))

\* C19 witness: user 1's call() has failed on its send: user 1 is in calling
\* with no call() awaiting, and user 2 was never reached.
C19_Witness ==
  /\ state[1] = "calling" /\ observed[1].reason = "localVideoCall"
  /\ pending[1].call = 0 /\ uuid = 1
  /\ chan[1][2] = <<>> /\ state[2] = "prepared" /\ observed[2].from = "idle"

\* C20: the callee takes over the callId of the invite it handles; from then
\* on, while both users are in the call with each other and no message is in
\* flight between them, both hold the same callId, and the Accept, Cancel or
\* Hangup either of them sends carries it.
C20_SameCallId ==
  \A a \in Pair : \A b \in Pair \ {a} :
    /\ (chan[b][a] # <<>> /\ Decode(Head(chan[b][a])).message_action = "VideoCall"
        /\ remoteUserId[a] = NoUser) =>
         MessageReceive(Ctx(a), Head(chan[b][a]), TRUE).callId
           = Decode(Head(chan[b][a])).callId
    /\ (IsBusyState(state[a]) /\ IsBusyState(state[b])
        /\ remoteUserId[a] = b /\ remoteUserId[b] = a
        /\ chan[a][b] = <<>> /\ chan[b][a] = <<>>) =>
         /\ callId[a] = callId[b] /\ callId[a] # NoCallId
         /\ \A post \in {AcceptBody(Ctx(a), b, TRUE), CancelCallBody(Ctx(a), TRUE),
                         HangupBody(Ctx(a), b, TRUE)} :
              \A i \in 1..Len(post.sent) : Decode(post.sent[i][2]).callId = callId[b]

RemoteUserRecvCall == [kind |-> "event", event |-> "remoteUserRecvCall"]

\* What a handler emitted, callError emissions left out.
NoErrors(o) == SelectSeq(o, LAMBDA x : x.kind # "error")

\* C21: call() in prepared emits the change to calling (reason
\* localVideoCall, eventInfo {remoteUserId, fromUserId}) while the callId is
\* still the old one, then onCalling; it then assigns the fresh callId and
\* arms the local timer, starts the media join (joinRTCStart) and last the
\* invite send, which carries the fresh callId; remoteUserRecvCall is emitted
\* by nothing but the continuation of a call() whose invite send has resolved.
C21_CallOrder ==
  \A e \in Pair :
    /\ \A r \in Pair \ {e} :
         state[e] = "prepared" =>
           LET post == CallBody(Ctx(e), r, uuid + 1, TRUE)
               o == NoErrors(post.out)
               joins == ~rtcJoined[e] /\ prepareConfig[e].roomId # 0
                        /\ prepareConfig[e].rtcToken
           IN /\ Len(o) = IF joins THEN 4 ELSE 3
              /\ o[1] = [kind |-> "state", from |-> "prepared", to |-> "calling",
                         reason |-> "localVideoCall",
                         info |-> [NoInfo EXCEPT !.remoteUserId = r, !.fromUserId = e],
                         callId |-> callId[e]]
              /\ o[2] = [kind |-> "event", event |-> "onCalling"]
              /\ joins => o[3] = [kind |-> "event", event |-> "joinRTCStart"]
              /\ o[Len(o)].kind = "send" /\ o[Len(o)].uid = r
              /\ o[Len(o)].msg.message_action = "VideoCall"
              /\ o[Len(o)].msg.callId = uuid + 1
              /\ post.callId = uuid + 1 /\ post.callId # callId[e]
              /\ prepareConfig[e].callTimeoutMillisecond # 0 =>
                   post.cancelCallTimer = "local"
              /\ post.pending.call = pending[e].call + 1
    /\ \A run \in CommandRuns(e) \cup EnvironmentRuns(e) :
         (\E i \in 1..Len(run.post.out) : run.post.out[i] = RemoteUserRecvCall) =>
           /\ run.op = "callSendDone" /\ pending[e].call > 0
           /\ run.post.out = <<RemoteUserRecvCall>>

\* C21 witness: a call() has run and its invite send has not resolved: the
\* listener saw calling with the old, empty callId, the engine holds the fresh
\* one and the armed timer, and the invite that carries it is in flight.
C21_Witness ==
  \E e \in Pair : \E r \in Pair \ {e} :
    /\ state[e] = "calling" /\ observed[e].reason = "localVideoCall"
    /\ observed[e].callId = NoCallId /\ callId[e] = uuid /\ uuid > 0
    /\ cancelCallTimer[e] = "local" /\ pending[e].call = 1 /\ pending[e].join = 1
    /\ chan[e][r] # <<>> /\ Decode(Head(chan[e][r])).callId = callId[e]

\* The callStateChanged emissions of o as <<from, to, reason>>.
Steps(o) ==
  [i \in 1..Len(StateChanges(o)) |->
     <<StateChanges(o)[i].from, StateChanges(o)[i].to, StateChanges(o)[i].reason>>]

\* User u's audio track can be announced to engine e now.
AudioArrives(e, u) ==
  /\ rtc[e].room # 0 /\ rtc[u].room = rtc[e].room /\ rtc[u].published
  /\ u = remoteUserId[e] /\ ~remoteTracks[e].audio

\* C22: with firstFrameWaittingDisabled on both engines, the handler that
\* enters connecting (accept(), or the Accept of the peer) goes on to
\* connected in the same step, whether or not a first frame was decoded, so
\* no engine rests in connecting; and a remote audio track announced to a
\* connected engine is played at once, so a connected engine plays every
\* audio track it holds.
C22_ConnectedWithoutFirstFrame ==
  \A e \in Pair : \A r \in Pair \ {e} :
    /\ state[e] # "connecting"
    /\ state[e] = "calling" =>
         LET post == AcceptBody(Ctx(e), r, TRUE)
         IN /\ Steps(post.out) =
                 <<<<"calling", "connecting", "localAccepted">>,
                   <<"connecting", "connected", "recvRemoteFirstFrame">>>>
            /\ post.firstFrameDecoded = firstFrameDecoded[e]
    /\ (state[e] = "calling" /\ chan[r][e] # <<>>
        /\ Decode(Head(chan[r][e])).message_action = "Accept") =>
         LET post == MessageReceive(Ctx(e), Head(chan[r][e]), TRUE)
         IN /\ Steps(post.out) =
                 <<<<"calling", "connecting", "remoteAccepted">>,
                   <<"connecting", "connected", "recvRemoteFirstFrame">>>>
            /\ post.firstFrameDecoded = firstFrameDecoded[e]
    /\ (state[e] = "connected" /\ AudioArrives(e, r)) =>
         LET post == UserPublishedBody(Ctx(e), r, "audio")
         IN post.remoteTracks.audio /\ post.remoteTracks.audioPlaying
    /\ (state[e] = "connected" /\ remoteTracks[e].audio) =>
         remoteTracks[e].audioPlaying

\* C22 witness: user 1 went from connecting to connected with no frame decoded
\* and no remote track yet, and user 2's audio is now announced to it; user 2
\* is connected too and plays user 1's audio.
C22_Witness ==
  /\ state[1] = "connected" /\ observed[1].from = "connecting"
  /\ ~firstFrameDecoded[1] /\ ~rtc[1].firstFrame /\ ~remoteTracks[1].video
  /\ AudioArrives(1, 2)
  /\ state[2] = "connected" /\ ~firstFrameDecoded[2]
  /\ remoteTracks[2].audioPlaying

States == {"idle", "prepared", "calling", "connecting", "connected"}

\* A Cancel, Hangup or Reject of user f that engine e will not ignore is the
\* oldest message for it.
TeardownAtHead(e, f) ==
  /\ chan[f][e] # <<>>
  /\ Decode(Head(chan[f][e])).message_action \in {"Cancel", "Hangup", "Reject"}
  /\ IsCallingUser(Ctx(e), f)

\* C23: _callStateChange to the state the engine is in changes nothing and
\* emits nothing; so in prepared, cancelCall, reject, hangup, an inbound
\* Cancel, Hangup or Reject, and the continuation of a teardown emit no
\* callStateChanged; and every callStateChanged an engine emits leaves the
\* state the previous one entered for a different one, so no two consecutive
\* emissions carry the same state.
C23_NoSelfTransition ==
  \A e \in Pair :
    /\ \A rs \in {"none", "localCancel", "remoteHangup"} :
         CallStateChange(Ctx(e), state[e], rs, NoInfo) = Ctx(e)
    /\ observed[e].to = state[e]
    /\ \A run \in CommandRuns(e) \cup EnvironmentRuns(e) :
         LET sc == StateChanges(run.post.out)
         IN /\ \A i \in 1..Len(sc) : sc[i].from # sc[i].to
            /\ sc # <<>> => sc[1].from = state[e]
            /\ \A i \in 1..(Len(sc) - 1) : sc[i + 1].from = sc[i].to
            /\ (state[e] = "prepared"
                /\ run.op \in {"cancelCall", "reject", "hangup", "leaveDone"}) =>
                 sc = <<>>
            /\ (state[e] = "prepared" /\ run.op = "messageReceive"
                /\ TeardownAtHead(e, run.arg)) => sc = <<>>

\* C23 witness: an engine that has left its call for prepared and then gets
\* the Cancel, Hangup or Reject of its peer, which it does not ignore.
C23_Witness ==
  \E e \in Pair : \E f \in Pair \ {e} :
    /\ state[e] = "prepared" /\ IsBusyState(observed[e].from)
    /\ TeardownAtHead(e, f)
    /\ MessageReceive(Ctx(e), Head(chan[f][e]), TRUE) # Ctx(e)

\* C24: when the call was torn down while the invite send of call() was in
\* flight, the call() that resumes emits no remoteUserRecvCall (it emits
\* nothing at all).
C24_ResumedCallShortCircuits ==
  \A e \in Pair :
    \A run \in EnvironmentRuns(e) :
      (run.op = "callSendDone" /\ ~IsBusyState(state[e])) => run.post.out = <<>>

RemoteLeft == [kind |-> "event", event |-> "remoteLeft"]

\* C25: user-left for the committed peer emits remoteLeft and, in calling,
\* connecting or connected, tears down (the leave is awaited when joined) and
\* then changes to prepared with reason remoteHangup; outside a call it emits
\* remoteLeft only.  user-joined, user-left, user-published and
\* user-unpublished for any other uid change nothing and emit nothing.
C25_MediaEvents ==
  \A e \in Pair :
    /\ \A u \in rtc[e].left :
         u = remoteUserId[e] =>
           LET post == UserLeftBody(Ctx(e), u)
           IN /\ post.out[1] = RemoteLeft /\ post.sent = <<>>
              /\ IF ~IsBusyState(state[e])
                 THEN [post EXCEPT !.out = <<>>] = Ctx(e) /\ Len(post.out) = 1
                 ELSE IF rtcJoined[e]
                 THEN /\ post.out = <<RemoteLeft>>
                      /\ post.pending.leave = Append(pending[e].leave, ContUserLeft)
                      /\ post.localTracks # "open"
                 ELSE /\ Steps(post.out) = <<<<state[e], "prepared", "remoteHangup">>>>
                      /\ IsReset(post)
    /\ (pending[e].leave # <<>> /\ Head(pending[e].leave) = ContUserLeft) =>
         LET post == LeaveDoneBody(Ctx(e))
         IN /\ post.state = "prepared" /\ IsReset(post)
            /\ IsBusyState(state[e]) =>
                 Steps(post.out) = <<<<state[e], "prepared", "remoteHangup">>>>
    /\ \A u \in Engines \ {e, remoteUserId[e]} :
         /\ UserJoinedBody(Ctx(e), u) = Ctx(e)
         /\ UserLeftBody(Ctx(e), u) = Ctx(e)
         /\ \A t \in {"video", "audio"} :
              /\ UserPublishedBody(Ctx(e), u, t) = Ctx(e)
              /\ UserUnpublishedBody(Ctx(e), u, t) = Ctx(e)

\* C25 witness: an engine in a call was told that its peer left, tore down
\* and is in prepared by remoteHangup, out of the channel.
C25_Witness ==
  \E e \in Pair :
    /\ state[e] = "prepared" /\ observed[e].reason = "remoteHangup"
    /\ IsBusyState(observed[e].from) /\ IsReset(Ctx(e)) /\ rtc[e].room = 0
    /\ pending[e].leave = <<>>

\* Engine e has called user f and f's own invite is the oldest message for it.
CrossingInvite(e, f) ==
  /\ state[e] = "calling" /\ observed[e].reason = "localVideoCall"
  /\ remoteUserId[e] = f
  /\ chan[f][e] # <<>> /\ Decode(Head(chan[f][e])).message_action = "VideoCall"

\* C26: an invite from the user the engine is itself calling is taken as a
\* duplicate: nothing is sent (no auto-reject), no callStateChanged is
\* emitted and the state stays calling, and nothing is torn down (no leave,
\* tracks and channel kept, the peer stays committed).
C26_GlareInviteIsDuplicate ==
  \A e \in Pair : \A f \in Pair \ {e} :
    CrossingInvite(e, f) =>
      LET post == MessageReceive(Ctx(e), Head(chan[f][e]), TRUE)
      IN /\ post.sent = <<>> /\ Sends(post.out) = <<>>
         /\ StateChanges(post.out) = <<>> /\ post.state = "calling"
         /\ post.remoteUserId = f
         /\ post.pending.leave = pending[e].leave
         /\ post.localTracks = localTracks[e] /\ post.rtcJoined = rtcJoined[e]
         /\ post.cancelCallTimer # "none"

\* C26 witness: both users called each other and both invites have been
\* handled: each is still in calling by its own call, with the timer re-armed
\* by the invite it received.
C26_Witness ==
  /\ uuid = 2
  /\ \A e \in Pair : \A f \in Pair \ {e} :
       /\ state[e] = "calling" /\ observed[e].reason = "localVideoCall"
       /\ remoteUserId[e] = f /\ cancelCallTimer[e] = "remote"
       /\ chan[e][f] = <<>> /\ pending[e].leave = <<>>

\* C27: arming the timer clears the timeout armed before, so an engine has at
\* most one timeout pending, it is the one the handle names, and it was armed
\* for the call the engine is in now (so none left from an earlier call can
\* fire in a later one); call() from prepared leaves exactly the timeout of
\* the new call pending; and _resetData leaves none.
C27_OneTimeoutPerEngine ==
  \A e \in Pair :
    /\ Len(timeouts[e]) <= 1
    /\ (timeouts[e] = <<>>) <=> (cancelCallTimer[e] = "none")
    /\ \A i \in 1..Len(timeouts[e]) :
         /\ timeouts[e][i].callId = callId[e]
         /\ timeouts[e][i].isLocal <=> (cancelCallTimer[e] = "local")
    /\ \A r \in Pair \ {e} :
         (state[e] = "prepared" /\ prepareConfig[e].callTimeoutMillisecond # 0) =>
           CallBody(Ctx(e), r, uuid + 1, TRUE).timeouts
             = <<[isLocal |-> TRUE, callId |-> uuid + 1]>>
    /\ ResetData(Ctx(e)).timeouts = <<>>
    /\ ResetData(Ctx(e)).cancelCallTimer = "none"

\* C27 witness: the first call has ended and its leave is still awaited; the
\* engine is in its second call with only that call's timeout pending.
C27_Witness ==
  /\ uuid = 2 /\ state[1] = "calling" /\ callId[1] = 2
  /\ timeouts[1] = <<[isLocal |-> TRUE, callId |-> 2]>>
  /\ pending[1].leave # <<>> /\ observed[1].from = "prepared"

\* C28: user 2 accepted, and user 1's Cancel (its cancelCall or its timeout)
\* reached user 2 after that.  Once no message, awaited operation or media
\* event is outstanding, both engines are in prepared with remoteUserId = 0;
\* user 1 is not in connecting or connected.
C28_AcceptCancelCrossing ==
  (/\ Quiescent
   /\ observed[2].reason = "remoteCancel"
   /\ observed[2].from \in {"connecting", "connected"}) =>
    \A e \in Pair : state[e] = "prepared" /\ remoteUserId[e] = NoUser

RemoteAccepted == [kind |-> "event", event |-> "remoteAccepted"]

\* C29: an Accept moves the engine to connecting only when it comes from the
\* committed peer and the engine is in calling; any other Accept (from another
\* user, or received in idle, prepared, connecting or connected) leaves the
\* state as it is and emits no remoteAccepted.
C29_AcceptGated ==
  \A e \in Pair : \A f \in Pair \ {e} :
    (chan[f][e] # <<>> /\ Decode(Head(chan[f][e])).message_action = "Accept") =>
      LET post == MessageReceive(Ctx(e), Head(chan[f][e]), TRUE)
      IN IF state[e] = "calling" /\ remoteUserId[e] = f
         THEN post.out[1] = RemoteAccepted /\ post.out[2].to = "connecting"
         ELSE /\ post.state = state[e]
              /\ \A i \in 1..Len(post.out) : post.out[i] # RemoteAccepted

\* C30: whenever an engine is in calling by its own call() and no leave is
\* awaited any more, the call's data is in place: remoteUserId is the user it
\* called, the callId is not empty and the timeout of the call is pending.
C30_TeardownSparesNewCall ==
  \A e \in Pair :
    (/\ state[e] = "calling" /\ observed[e].reason = "localVideoCall"
     /\ pending[e].leave = <<>>) =>
      /\ remoteUserId[e] = observed[e].info.remoteUserId
      /\ callId[e] # NoCallId
      /\ cancelCallTimer[e] = "local"

\* ----------------------------------------------------------------- C31
\* C31: a call torn down while its media join is still in flight does not
\* leave the engine joined: once nothing is pending anywhere, an engine in
\* prepared has _rtcJoined false, holds no open local tracks and occupies no
\* media room.
C31_TeardownBeatsJoin ==
  Quiescent =>
    \A e \in Pair :
      state[e] = "prepared" =>
        /\ ~rtcJoined[e]
        /\ localTracks[e] # "open"
        /\ rtc[e].room = 0

\* ----------------------------------------------------------------- C32
\* Both users have called each other and each has handled the other's invite:
\* both placed a call of their own, nothing is in flight between them and
\* neither invite send is still awaited.
GlareHandled ==
  /\ \A e \in Pair : \A f \in Pair \ {e} :
       /\ state[e] = "calling" /\ observed[e].reason = "localVideoCall"
       /\ remoteUserId[e] = f /\ chan[f][e] = <<>> /\ pending[e].call = 0
  /\ uuid = MaxGlareCalls

\* C32: under glare, once both invites have been handled, the two engines
\* hold one and the same callId.
C32_GlareAgreesOnCallId ==
  GlareHandled => callId[1] = callId[2]

\* ----------------------------------------------------------------- C33
\* C33: an engine in idle stays in idle on every inbound signaling message,
\* whatever its action and whether or not the reply it triggers can be sent.
C33_IdleIgnoresMessages ==
  \A e \in Engines : \A f \in Engines \ {e} :
    (state[e] = "idle" /\ chan[f][e] # <<>>) =>
      \A ok \in BOOLEAN :
        MessageReceive(Ctx(e), Head(chan[f][e]), ok).state = "idle"

\* ----------------------------------------------------------------- C34
\* C34: an engine that waits for the first frame is connected only on a first
\* frame of the call it is in, that is, of a remote video track subscribed in
\* this call; a first-frame event of an earlier call's track, delivered after
\* that call's teardown, leaves no mark on the next call.
C34_OwnFirstFrame ==
  \A e \in Pair :
    (/\ ~prepareConfig[e].firstFrameWaittingDisabled
     /\ state[e] = "connected" /\ pending[e].leave = <<>>) =>
      remoteTracks[e].video

\* ----------------------------------------------------------------- C35
\* User e is in a call of its own whose invite could not be sent: e is in
\* calling by its own call() and holds the callId that call() assigned, no
\* invite send is awaited or on the way, and the peer was never reached.
InviteFailed(e) ==
  /\ state[e] = "calling" /\ observed[e].reason = "localVideoCall"
  /\ callId[e] = uuid /\ pending[e].call = 0
  /\ \A f \in Pair \ {e} : chan[e][f] = <<>> /\ observed[f].from = "idle"

\* C35: a call() whose invite send fails throws but rolls nothing back: it
\* leaves the engine exactly where a call() whose send is still awaited leaves
\* it (calling, remoteUserId and callId set, join started, timer armed); the
\* join then runs on, and the engine goes to prepared only by cancelCall,
\* hangup, reject, an inbound message or the timeout.
C35_FailedInviteKeepsCall ==
  \A e \in Pair :
    /\ \A r \in Pair \ {e} :
         state[e] = "prepared" =>
           LET bad == CallBody(Ctx(e), r, uuid + 1, FALSE)
               good == CallBody(Ctx(e), r, uuid + 1, TRUE)
           IN /\ bad.out[Len(bad.out)] = [kind |-> "throw"]
              /\ bad.state = "calling" /\ bad.remoteUserId = r
              /\ bad.callId = uuid + 1 /\ bad.cancelCallTimer = "local"
              /\ bad.timeouts = good.timeouts /\ bad.timeouts # timeouts[e]
              /\ bad.pending = [good.pending EXCEPT !.call = pending[e].call]
              /\ StateChanges(bad.out) = StateChanges(good.out)
    /\ InviteFailed(e) =>
         /\ remoteUserId[e] # NoUser
         /\ cancelCallTimer[e] = "local" /\ timeouts[e] # <<>>
         /\ pending[e].join > 0 \/ rtcJoined[e]
         /\ \A run \in CommandRuns(e) \cup EnvironmentRuns(e) :
              run.post.state = "prepared" =>
                run.op \in {"cancelCall", "hangup", "reject", "messageReceive",
                            "timerFire"}

\* C35 witness: user 1's call() has failed on its send, and the join it had
\* started has completed all the same: user 1 is in calling, joined, with the
\* timer armed, and user 2 was never reached.
C35_Witness ==
  /\ InviteFailed(1) /\ uuid = 1 /\ rtcJoined[1] /\ rtc[1].room # 0
  /\ cancelCallTimer[1] = "local" /\ remoteUserId[1] = 2

\* ----------------------------------------------------------------- C36
\* A teardown of engine e has failed on its leave: e rests in prepared with
\* no leave outstanding, still joined and still bound to the ended call's peer.
LeaveFailed(e) ==
  /\ state[e] = "prepared" /\ pending[e].leave = <<>>
  /\ rtcJoined[e] /\ remoteUserId[e] # NoUser

\* C36: when the leave awaited by the teardown of hangup, cancelCall, reject or
\* an inbound Cancel or Hangup fails, the engine emits callError(rtcOccurError,
\* rtc), the teardown throws and no call data is reset: the state is prepared
\* while remoteUserId, callId and _rtcJoined keep the ended call's values.  In
\* that condition an invite from any other user is auto-rejected as busy, and
\* a further teardown whose leave succeeds resets the data.
C36_FailedLeaveKeepsCallData ==
  \A e \in Pair :
    /\ (rtcJoined[e] /\ IsBusyState(state[e])) =>
         \A post \in {HangupBody(Ctx(e), remoteUserId[e], TRUE),
                       CancelCallBody(Ctx(e), TRUE),
                       RejectBody(Ctx(e), remoteUserId[e], "no", TRUE)} :
           /\ post.state = "prepared"
           /\ post.pending.leave = Append(pending[e].leave, ContNone)
    /\ (pending[e].leave # <<>> /\ Head(pending[e].leave) = ContNone
        /\ state[e] = "prepared") =>
         LET post == LeaveFailBody(Ctx(e))
         IN /\ post.out = <<RtcOccurError, [kind |-> "throw"]>>
            /\ post.state = "prepared" /\ post.rtcJoined = rtcJoined[e]
            /\ post.remoteUserId = remoteUserId[e] /\ post.callId = callId[e]
            /\ [post EXCEPT !.out = <<>>, !.pending.leave = pending[e].leave] = Ctx(e)
    /\ LeaveFailed(e) =>
         /\ callId[e] # NoCallId
         /\ \A f \in Engines \ {e, remoteUserId[e]} :
              (chan[f][e] # <<>>
               /\ Decode(Head(chan[f][e])).message_action = "VideoCall") =>
                LET post == MessageReceive(Ctx(e), Head(chan[f][e]), TRUE)
                IN /\ post.out = <<[kind |-> "send", uid |-> f, msg |-> BusyReject(e, f)]>>
                   /\ post.state = "prepared" /\ post.remoteUserId = remoteUserId[e]
         /\ LET again == HangupBody(Ctx(e), remoteUserId[e], TRUE)
            IN /\ again.pending.leave = <<ContNone>>
               /\ IsReset(LeaveDoneBody(again))

\* C36 witness: user 1's teardown of its call with user 2 has failed on the
\* leave, and an invite of user 3 is now the next message user 1 handles.
C36_Witness ==
  /\ LeaveFailed(1) /\ remoteUserId[1] = 2 /\ callId[1] = 1
  /\ chan[3][1] # <<>> /\ Decode(Head(chan[3][1])).message_action = "VideoCall"

\* ----------------------------------------------------------------- C37
NoThrow(o) == \A j \in 1..Len(o) : o[j].kind # "throw"

Errors(o) == SelectSeq(o, LAMBDA x : x.kind = "error")

\* The legacy engine record l holds no call data.
LegacyIsReset(l) ==
  /\ l.callId = NoCallId /\ l.remoteUserId = NoUser /\ ~l.rtcJoined
  /\ ~l.rtcPublished /\ l.localTracks = "none" /\ l.cancelCallTimer = "none"

CallingTimeout == [kind |-> "state", to |-> "prepared", reason |-> "callingTimeout"]

\* C37: in the legacy engine a failed sendMessage, join, publish or leave is
\* emitted as one callError and swallowed: the async function goes on as after
\* a success and no command fails for it (call and accept fail on a state
\* mismatch only); destory resets the call data also when its leave failed;
\* and the timer callback emits prepared / callingTimeout only as its last
\* act, after its Cancel send has settled and its destory has reset the data.
C37_LegacySwallowsFailures ==
  LET l == LegacyNow
  IN /\ \A i \in 1..Len(l.ops) :
          /\ l.ops[i].send = "wait" =>
               LET bad == LegacySendDoneBody(l, i, FALSE)
                   good == LegacySendDoneBody(l, i, TRUE)
               IN /\ NoThrow(bad.out) /\ NoThrow(good.out)
                  /\ Errors(bad.out) = <<SendMessageFail>>
                  /\ bad.ops = good.ops /\ bad.state = good.state
                  /\ l.ops[i].k = "timeout" =>
                       \A post \in {bad, good} :
                         IF l.rtcJoined
                         THEN StateChanges(post.out) = <<>> /\ post.ops[i].leave
                         ELSE LegacyIsReset(post)
          /\ l.ops[i].media = "join" =>
               \A tracks \in BOOLEAN :
                 LET bad == LegacyJoinDoneBody(l, i, FALSE, tracks)
                 IN /\ NoThrow(bad.out) /\ Errors(bad.out) = <<RtcOccurError>>
                    /\ bad.ops = IF l.ops[i].send = "done" THEN RemoveAt(l.ops, i)
                                 ELSE [l.ops EXCEPT ![i].media = "done"]
          /\ l.ops[i].media = "publish" =>
               LET bad == LegacyPublishDoneBody(l, i, FALSE)
               IN /\ NoThrow(bad.out) /\ Errors(bad.out) = <<RtcOccurError>>
                  /\ bad.ops = LegacyPublishDoneBody(l, i, TRUE).ops
          /\ l.ops[i].leave =>
               LET bad == LegacyLeaveDoneBody(l, i, FALSE)
               IN /\ NoThrow(bad.out) /\ bad.out[1] = RtcOccurError
                  /\ LegacyIsReset(bad)
                  /\ bad.ops = RemoveAt(l.ops, i)
                  /\ bad.state = LegacyLeaveDoneBody(l, i, TRUE).state
     /\ ~NoThrow(LegacyCallBody(l, 2, uuid + 1).out) <=> l.state # "prepared"
     /\ ~NoThrow(LegacyAcceptBody(l).out) <=> l.state # "calling"
     /\ \A post \in {LegacyCancelCallBody(l), LegacyRejectBody(l),
                     LegacyHangupBody(l), LegacyDestoryBody(l)} : NoThrow(post.out)
     /\ l.cancelCallTimer = "armed" => StateChanges(LegacyTimerFireBody(l).out) = <<>>
     /\ \A j \in 1..Len(legacy.out) :
          legacy.out[j] = CallingTimeout =>
            /\ j = Len(legacy.out)
            /\ LegacyIsReset(legacy)
            /\ [kind |-> "send", action |-> "Cancel", uid |-> 2] \notin
                 {legacy.out[n] : n \in 1..Len(legacy.out)}

\* C37 witness: the timer callback of the legacy engine has just finished a
\* teardown whose leave failed: the step emitted callError(rtcOccurError, rtc)
\* and then prepared / callingTimeout, and the call data is reset.
C37_Witness ==
  /\ legacy.out = <<RtcOccurError, CallingTimeout>>
  /\ LegacyIsReset(legacy) /\ legacy.state = "prepared"

====
